---- MODULE Spec2Model ----
(***************************************************************************)
(* Model of the opencode-harness plugin core: the context tracker          *)
(* (packages/plugin/src/context-tracker.ts) and the memory store           *)
(* (packages/shared/src/memory-format.ts, packages/plugin/src/             *)
(* memory-hooks.ts).                                                       *)
(*                                                                         *)
(* Numbers.  Importance values are JavaScript numbers in [0,1]; they are   *)
(* held here as exact fractions with the common denominator Scale, so      *)
(* that 0.1, 0.5, 0.81 and a product by the decay rate 0.95 are all        *)
(* integers.  Strings that the code cuts or concatenates (item keys) are   *)
(* sequences of one-character strings; the content of a memory entry and   *)
(* the texts built from it are sequences of pieces, each a string.         *)
(* JavaScript arrays that are shared                                       *)
(* between objects and mutated in place are cells of the heap `arrays`.    *)
(***************************************************************************)
EXTENDS Integers, Sequences, FiniteSets, TLC

VARIABLES
    state,      \* context-tracker.ts:37  the tracker's `state` object
    arrays,     \* the heap of item arrays: state.items is a reference into it
    now,        \* the value Date.now() returns
    snapshot,   \* <<>> or <<s>>: the object the last getState() returned
    snapTaken,  \* <<>> or <<v>>: what that object held when getState returned
    removed,    \* the array the last prune() returned
    call,       \* the last call (of the tracker or of the hooks) and its arguments
    tracked,    \* the keys handed to addItem since the tracker was created
    firsts,     \* the token cost handed to addItem with each key the first time, as
                \* long as no prune() or reset() was called
    ncalls,     \* number of calls made so far
    mode,       \* what is exercised: "tracker", "library" (memory-format.ts called
                \* directly) or "session" (one memory-hooks instance)
    lib,        \* library mode: the arguments and the result of the call
    file,       \* the durable memory file .opencode/.harness/memory.json
    store,      \* memory-hooks.ts:27  <<>> for null, or <<the MemoryStore>>
    dirty,      \* memory-hooks.ts:28
    ipc,        \* where initialize() is: "none", "reading" (awaiting readFile), "done"
    ppc,        \* where persist() is: "idle", "mkdir" (awaiting mkdir), "writing"
                \* (awaiting writeFile)
    payload,    \* the text handed to the writeFile that is under way
    wrote,      \* how the last writeFile ended, "ok" or "failed"; "none" before any
                \* and after an add* call
    raised,     \* an exception has reached the caller of a hooks function
    run,        \* the run command of the CLI: where runCommand is, its locals, what
                \* the agent printed last and how the process ended
    peer        \* a second memory-hooks instance on the same project path: its own
                \* store, dirty, ipc, ppc, payload, wrote and raised, and the entries
                \* its writes removed from the file

trackerVars == <<state, arrays, snapshot, snapTaken, removed, call, tracked, firsts, ncalls>>
sessionVars == <<store, dirty, ipc, ppc, payload, wrote, raised>>
hookVars == <<sessionVars, peer>>
memoryVars == <<lib, file, hookVars>>
vars == <<trackerVars, memoryVars, now, mode, run>>

----------------------------------------------------------------------------
\* Bounds of the model

\* number of tracker calls explored
MaxCalls == 4
\* number of applyDecay calls explored; it also fixes the denominator of importance
MaxDecays == 2
\* how far the clock runs past its start
MaxTicks == 1
\* retention periods a kept store is followed for
MaxPeriods == 2
\* entries in a store handed to a library call or found in the file at start
MaxEntries == 2
\* clock ticks in one day (24 * 60 * 60 * 1000 ms in the code)
DayTicks == 2
\* how far the number of a session's entries goes past the compression threshold
MaxOver == 1
\* memories in a list handed to formatForContext
MaxMemories == 3
\* add* calls that one session's store takes
MaxAdds == 2
\* add* calls that the store of the second of two sessions takes
MaxPeerAdds == 1
\* how far the number of a store's entries goes past the limit of recent memories
MaxBeyond == 2
\* calls of one plugin instance, initialize included, when tool records and
\* context-nav calls are handled
MaxHandled == 3

----------------------------------------------------------------------------
\* Numbers

\* denominator of every importance value: 0.1 = Scale/10, and MaxDecays
\* products by 19/20 stay integral
Scale == 10 * (20 ^ MaxDecays)

\* a decimal fraction n/d as a multiple of 1/Scale
Frac(n, d) == (n * Scale) \div d

Min(a, b) == IF a <= b THEN a ELSE b

Max(a, b) == IF a >= b THEN a ELSE b

\* the entries of a sequence, as a set
Range(seq) == {seq[i] : i \in 1 .. Len(seq)}

----------------------------------------------------------------------------
\* Configuration (DEFAULT_CONFIG)

maxTokens == 100000
\* compactionThreshold 0.8, in tenths
compactionThresholdTenths == 8
\* importanceDecayRate 0.95 = 19/20
decayNum == 19
decayDen == 20

----------------------------------------------------------------------------
\* Heap of item arrays

ArrIds == 1 .. 3

undefined == "undefined"

\* the array state.items refers to
Items == arrays[state.items]

\* ids some live object still refers to
Live(st, snap) == {st.items} \cup {snap[i].items : i \in DOMAIN snap}

\* a fresh array id (the JavaScript `[]`, .map and .filter results)
Alloc(st, snap) == CHOOSE i \in ArrIds : i \notin Live(st, snap)

\* cells nothing refers to are collected
Collect(arrs, st, snap) == [i \in ArrIds |-> IF i \in Live(st, snap) THEN arrs[i] ELSE <<>>]

----------------------------------------------------------------------------
\* Pure helpers of the tracker

calculateImportance(type) ==
    CASE type = "file" -> Frac(7, 10)
      [] type = "function" -> Frac(8, 10)
      [] type = "class" -> Frac(8, 10)
      [] type = "search" -> Frac(5, 10)
      [] type = "command" -> Frac(6, 10)
      [] OTHER -> Frac(5, 10)

estimateTokens(item) ==
    CASE item.type = "file" -> 500
      [] item.type = "function" -> 200
      [] item.type = "class" -> 400
      [] item.type = "search" -> 100
      [] item.type = "command" -> 150
      [] OTHER -> 100

RECURSIVE SumEstimates(_)
\* items.reduce((sum, item) => sum + estimateTokens(item), 0)
SumEstimates(items) ==
    IF items = <<>> THEN 0
    ELSE estimateTokens(Head(items)) + SumEstimates(Tail(items))

\* checkCompactionNeeded with the comparison > in place of >=
checkCompactionNeededStrict(st) ==
    [st EXCEPT !.needsCompaction =
        (st.totalTokensEstimate * 10 > compactionThresholdTenths * maxTokens)]

\* checkCompactionNeeded that raises the flag only while the total fits the budget
checkCompactionNeededWithinBudget(st) ==
    [st EXCEPT !.needsCompaction =
        /\ st.totalTokensEstimate * 10 >= compactionThresholdTenths * maxTokens
        /\ st.totalTokensEstimate <= maxTokens]

\* ratio >= compactionThreshold with ratio = total / maxTokens, both sides times 10 * maxTokens
checkCompactionNeeded(st) ==
    [st EXCEPT !.needsCompaction =
        (st.totalTokensEstimate * 10 >= compactionThresholdTenths * maxTokens)]

\* findIndex that never finds the path
findIndexNever(items, path) == 0

\* items.findIndex((i) => i.path === path); 0 stands for -1
findIndex(items, path) ==
    IF \E i \in 1 .. Len(items) : items[i].path = path
    THEN CHOOSE i \in 1 .. Len(items) :
            /\ items[i].path = path
            /\ \A j \in 1 .. (i - 1) : items[j].path # path
    ELSE 0

\* a || b on optional strings: undefined and "" are falsy
OrElse(a, b) == IF a = undefined \/ a = "" THEN b ELSE a

\* addItem that adds the token cost of every observation, repeated or not
addItemCounting(st, arrs, item, tokens) ==
    LET items == arrs[st.items]
        existingIndex == findIndex(items, item.path)
        counted == checkCompactionNeeded(
                       [st EXCEPT !.totalTokensEstimate = st.totalTokensEstimate + tokens])
    IN  IF existingIndex > 0
        THEN LET existing == items[existingIndex]
                 merged == [existing EXCEPT
                               !.viewedAt = item.viewedAt,
                               !.importance = Min(Scale, existing.importance + Frac(1, 10)),
                               !.summary = OrElse(item.summary, existing.summary)]
             IN  [state |-> counted,
                  arrays |-> [arrs EXCEPT ![st.items][existingIndex] = merged]]
        ELSE [state |-> counted,
              arrays |-> [arrs EXCEPT ![st.items] = Append(items, item)]]

\* addItem that raises the importance of a repeated key without the limit of 1
addItemUnclamped(st, arrs, item, tokens) ==
    LET items == arrs[st.items]
        existingIndex == findIndex(items, item.path)
    IN  IF existingIndex > 0
        THEN LET existing == items[existingIndex]
                 merged == [existing EXCEPT
                               !.viewedAt = item.viewedAt,
                               !.importance = existing.importance + Frac(1, 10),
                               !.summary = OrElse(item.summary, existing.summary)]
             IN  [state |-> checkCompactionNeeded(st),
                  arrays |-> [arrs EXCEPT ![st.items][existingIndex] = merged]]
        ELSE [state |-> checkCompactionNeeded(
                            [st EXCEPT !.totalTokensEstimate = st.totalTokensEstimate + tokens]),
              arrays |-> [arrs EXCEPT ![st.items] = Append(items, item)]]

\* addItem: the state object and the heap after the call
addItem(st, arrs, item, tokens) ==
    LET items == arrs[st.items]
        existingIndex == findIndex(items, item.path)
    IN  IF existingIndex > 0
        THEN LET existing == items[existingIndex]
                 merged == [existing EXCEPT
                               !.viewedAt = item.viewedAt,
                               !.importance = Min(Scale, existing.importance + Frac(1, 10)),
                               !.summary = OrElse(item.summary, existing.summary)]
             IN  [state |-> checkCompactionNeeded(st),
                  arrays |-> [arrs EXCEPT ![st.items][existingIndex] = merged]]
        ELSE [state |-> checkCompactionNeeded(
                            [st EXCEPT !.totalTokensEstimate = st.totalTokensEstimate + tokens]),
              arrays |-> [arrs EXCEPT ![st.items] = Append(items, item)]]

----------------------------------------------------------------------------
\* Inputs of the tracker calls

x50 == [i \in 1 .. 50 |-> "x"]
\* two commands of 51 characters that agree on their first 50
Commands == {x50 \o <<"1">>, x50 \o <<"2">>}
FilePaths == {<<"a">>}
SymbolFiles == {<<"a">>}
SymbolNames == {<<"f">>}
Queries == {<<"q">>}
ResultCounts == {0, 3}
Summaries == {undefined, "s"}
\* token costs a caller supplies; 80000 is exactly 0.8 * maxTokens
TokenCosts == {120, 80000}
\* prune thresholds: the default 0.1, and 0.5 and 0.6 around the base importances
PruneThresholds == {Frac(1, 10), Frac(5, 10), Frac(6, 10)}

\* the whole command in place of its first 50 characters
substringAll(s) == s

\* command.substring(0, 50)
substring50(s) == SubSeq(s, 1, Min(50, Len(s)))

\* pruneOldMemories' default retention used by initialize, in days
pruneDays == 30
\* the clock's first value: late enough for entries older than pruneDays
StartTime == (pruneDays + 2) * DayTicks

NoCall == [op |-> "none", again |-> FALSE, path |-> <<>>, existed |-> FALSE, tokens |-> 0,
           threshold |-> 0, importance |-> 0, arg |-> <<>>, out |-> <<>>]

\* the record of a call op; again: the call before it was the same operation
Called(op) == [NoCall EXCEPT !.op = op, !.again = (call.op = op)]

----------------------------------------------------------------------------
\* Memory store: memory-format.ts

\* createMemoryStore(projectId) at time t
createMemoryStore(projectId, t) ==
    [version |-> <<1>>, projectId |-> projectId, lastUpdated |-> t, entries |-> <<>>]

\* pruneOldMemories that exempts importance 0.8 itself
pruneOldMemoriesFromEightTenths(st, maxAgeDays, t) ==
    LET cutoff == t - maxAgeDays * DayTicks
        keep(e) == e.timestamp > cutoff \/ e.importance >= Frac(8, 10)
    IN  [st EXCEPT !.lastUpdated = t, !.entries = SelectSeq(st.entries, keep)]

\* pruneOldMemories that exempts importance above 0.9 only
pruneOldMemoriesAboveNineTenths(st, maxAgeDays, t) ==
    LET cutoff == t - maxAgeDays * DayTicks
        keep(e) == e.timestamp > cutoff \/ e.importance > Frac(9, 10)
    IN  [st EXCEPT !.lastUpdated = t, !.entries = SelectSeq(st.entries, keep)]

\* pruneOldMemories(store, maxAgeDays) at time t
pruneOldMemories(st, maxAgeDays, t) ==
    LET cutoff == t - maxAgeDays * DayTicks
        keep(e) == e.timestamp > cutoff \/ e.importance > Frac(8, 10)
    IN  [st EXCEPT !.lastUpdated = t, !.entries = SelectSeq(st.entries, keep)]

\* createMemoryEntry(sessionId, type, content, importance) at time t; uuid is
\* what randomUUID() returns. A string is the sequence of its pieces.
createMemoryEntry(sessionId, type, content, importance, uuid, t) ==
    [id |-> uuid, timestamp |-> t, sessionId |-> sessionId, type |-> type,
     content |-> content, importance |-> Max(0, Min(Scale, importance))]

\* addMemoryEntry that pushes the entry onto the array of the store it is given
addMemoryEntryInPlace(st, entry, t) ==
    LET pushed == [st EXCEPT !.lastUpdated = t, !.entries = Append(st.entries, entry)]
    IN  [argument |-> pushed, returned |-> pushed]

\* addMemoryEntry(store, entry) at time t: the object it returns, and the store
\* object it was given as the call leaves it
addMemoryEntry(st, entry, t) ==
    [argument |-> st,
     returned |-> [st EXCEPT !.lastUpdated = t, !.entries = st.entries \o <<entry>>]]

RECURSIVE join(_, _)
\* strings.join(sep)
join(strings, sep) ==
    IF strings = <<>> THEN <<>>
    ELSE IF Len(strings) = 1 THEN strings[1]
    ELSE strings[1] \o sep \o join(Tail(strings), sep)

\* entries.map(e => e.content)
contents(entries) == [i \in 1 .. Len(entries) |-> entries[i].content]

\* the session has fewer than 10 entries to compress
compressThreshold == 10

\* summaryContent that lists the error entries among the findings
summaryContentWithErrors(sessionEntries) ==
    LET isDecision(e) == e.type = "decision"
        isFinding(e) == e.type \in {"finding", "error"}
        decisions == SelectSeq(sessionEntries, isDecision)
        findings == SelectSeq(sessionEntries, isFinding)
        sections == <<IF Len(decisions) > 0
                      THEN <<"Decisions: ">> \o join(contents(decisions), <<"; ">>)
                      ELSE <<>>,
                      IF Len(findings) > 0
                      THEN <<"Findings: ">> \o join(contents(findings), <<"; ">>)
                      ELSE <<>>>>
        Boolean(str) == str # <<>>
    IN  join(SelectSeq(sections, Boolean), <<"\n">>)

\* summaryContent of compressMemories, for the session's entries to compress
summaryContent(sessionEntries) ==
    LET isDecision(e) == e.type = "decision"
        isFinding(e) == e.type = "finding"
        decisions == SelectSeq(sessionEntries, isDecision)
        findings == SelectSeq(sessionEntries, isFinding)
        sections == <<IF Len(decisions) > 0
                      THEN <<"Decisions: ">> \o join(contents(decisions), <<"; ">>)
                      ELSE <<>>,
                      IF Len(findings) > 0
                      THEN <<"Findings: ">> \o join(contents(findings), <<"; ">>)
                      ELSE <<>>>>
        Boolean(str) == str # <<>>
    IN  join(SelectSeq(sections, Boolean), <<"\n">>)

\* compressMemories that counts the session's summary entries toward the 10
compressMemoriesCountingSummaries(st, sessionId, uuid, t) ==
    LET toCompress(e) == e.sessionId = sessionId
        sessionEntries == SelectSeq(st.entries, toCompress)
        summary == createMemoryEntry(sessionId, "summary", summaryContent(sessionEntries),
                                     Frac(9, 10), uuid, t)
        other(e) == e.sessionId # sessionId
        otherEntries == SelectSeq(st.entries, other)
    IN  IF Len(sessionEntries) < compressThreshold
        THEN st
        ELSE [st EXCEPT !.lastUpdated = t, !.entries = otherEntries \o <<summary>>]

\* compressMemories that keeps the session's earlier summary entries
compressMemoriesKeepingSummaries(st, sessionId, uuid, t) ==
    LET toCompress(e) == e.sessionId = sessionId /\ e.type # "summary"
        sessionEntries == SelectSeq(st.entries, toCompress)
        summary == createMemoryEntry(sessionId, "summary", summaryContent(sessionEntries),
                                     Frac(9, 10), uuid, t)
        other(e) == e.sessionId # sessionId \/ e.type = "summary"
        otherEntries == SelectSeq(st.entries, other)
    IN  IF Len(sessionEntries) < compressThreshold
        THEN st
        ELSE [st EXCEPT !.lastUpdated = t, !.entries = otherEntries \o <<summary>>]

\* compressMemories that returns the summary entry alone
compressMemoriesSummaryOnly(st, sessionId, uuid, t) ==
    LET toCompress(e) == e.sessionId = sessionId /\ e.type # "summary"
        sessionEntries == SelectSeq(st.entries, toCompress)
        summary == createMemoryEntry(sessionId, "summary", summaryContent(sessionEntries),
                                     Frac(9, 10), uuid, t)
    IN  IF Len(sessionEntries) < compressThreshold
        THEN st
        ELSE [st EXCEPT !.lastUpdated = t, !.entries = <<summary>>]

\* compressMemories(store, sessionId) at time t
compressMemories(st, sessionId, uuid, t) ==
    LET toCompress(e) == e.sessionId = sessionId /\ e.type # "summary"
        sessionEntries == SelectSeq(st.entries, toCompress)
        summary == createMemoryEntry(sessionId, "summary", summaryContent(sessionEntries),
                                     Frac(9, 10), uuid, t)
        other(e) == e.sessionId # sessionId
        otherEntries == SelectSeq(st.entries, other)
    IN  IF Len(sessionEntries) < compressThreshold
        THEN st
        ELSE [st EXCEPT !.lastUpdated = t, !.entries = otherEntries \o <<summary>>]

RECURSIVE length(_)
\* string.length: the characters of all the pieces
length(str) == IF str = <<>> THEN 0 ELSE Len(Head(str)) + length(Tail(str))

\* estimatedTokens before the first memory: the header's share
headerTokens == 10

\* the line of a memory
memoryLine(memory) == <<"- [", memory.type, "] ">> \o memory.content

RECURSIVE formatLinesSkipping(_, _, _)
\* the loop of formatMemoriesForContext that passes over a memory that does not
\* fit and goes on with the next
formatLinesSkipping(memories, estimatedTokens, budget) ==
    IF memories = <<>> THEN <<>>
    ELSE LET line == memoryLine(Head(memories))
             lineTokens == (length(line) + 3) \div 4
         IN  IF estimatedTokens + lineTokens > budget
             THEN formatLinesSkipping(Tail(memories), estimatedTokens, budget)
             ELSE <<line>> \o formatLinesSkipping(Tail(memories),
                                                  estimatedTokens + lineTokens, budget)

RECURSIVE formatLines(_, _, _)
\* the loop of formatMemoriesForContext: the lines pushed for the memories left,
\* with estimatedTokens so far; Math.ceil(n / 4) is (n + 3) \div 4
formatLines(memories, estimatedTokens, budget) ==
    IF memories = <<>> THEN <<>>
    ELSE LET line == memoryLine(Head(memories))
             lineTokens == (length(line) + 3) \div 4
         IN  IF estimatedTokens + lineTokens > budget
             THEN <<>>
             ELSE <<line>> \o formatLines(Tail(memories),
                                          estimatedTokens + lineTokens, budget)

\* formatMemoriesForContext(memories, maxTokens)
formatMemoriesForContext(memories, budget) ==
    join(<<<<"## Relevant Memories">>>> \o formatLines(memories, headerTokens, budget),
         <<"\n">>)

RECURSIVE sortDescending(_, _)
\* entries.slice().sort((a, b) => b[field] - a[field]): descending in the field,
\* entries that compare equal stay in their order (Array.prototype.sort is stable)
sortDescending(entries, field) ==
    IF entries = <<>> THEN <<>>
    ELSE LET last == entries[Len(entries)]
             rest == sortDescending(SubSeq(entries, 1, Len(entries) - 1), field)
             ahead == Cardinality({i \in 1 .. Len(rest) : rest[i][field] >= last[field]})
         IN  SubSeq(rest, 1, ahead) \o <<last>> \o SubSeq(rest, ahead + 1, Len(rest))

\* getRecentMemories(store, limit)
getRecentMemories(st, limit) ==
    LET sorted == sortDescending(st.entries, "timestamp")
    IN  SubSeq(sorted, 1, Min(limit, Len(sorted)))

\* getImportantMemories(store, threshold)
getImportantMemories(st, threshold) ==
    LET important(e) == e.importance >= threshold
    IN  sortDescending(SelectSeq(st.entries, important), "importance")

\* the limit getContextString hands to getRecentMemories
recentLimit == 20

\* getContextString without the filter on combined
uniqueKeepingAll(combined) == combined

\* combined.filter((entry, index, self) => index === self.findIndex((e) => e.id === entry.id))
unique(combined) ==
    LET first(i) == \A j \in 1 .. (i - 1) : combined[j].id # combined[i].id
        RECURSIVE kept(_)
        kept(i) == IF i = 0 THEN <<>>
                   ELSE IF first(i) THEN kept(i - 1) \o <<combined[i]>>
                   ELSE kept(i - 1)
    IN  kept(Len(combined))

\* the entries getContextString hands to formatMemoriesForContext, for a store
contextMemories(st) ==
    LET recent == getRecentMemories(st, recentLimit)
        important == getImportantMemories(st, Frac(7, 10))
    IN  unique(important \o recent)

\* getContextString(maxTokens) of hooks whose store is st (<<>> for null)
getContextString(st, budget) ==
    IF st = <<>> THEN <<>>
    ELSE formatMemoriesForContext(contextMemories(st[1]), budget)

----------------------------------------------------------------------------
\* The durable file and JSON

\* no file at memoryPath
AbsentFile == [kind |-> "absent", text |-> <<>>]
\* a file that exists and cannot be read (readFile rejects)
UnreadableFile == [kind |-> "unreadable", text |-> <<>>]
\* the text of a file, by what JSON.parse makes of it: json is "invalid" (parse
\* throws), "object" (the document {}: no version, no entries) or "store"
Text(json, st) ==
    <<[json |-> json, version |-> st.version, projectId |-> st.projectId,
       lastUpdated |-> st.lastUpdated, entries |-> st.entries]>>

NoFields == [version |-> <<>>, projectId |-> <<>>, lastUpdated |-> 0, entries |-> <<>>]
\* a file whose text is not JSON
NotJsonFile == [kind |-> "text", text |-> Text("invalid", NoFields)]
\* a file holding the JSON document {}
EmptyObjectFile == [kind |-> "text", text |-> Text("object", NoFields)]

\* JSON.stringify that leaves the entries out
stringifyWithoutEntries(st) == Text("store", [st EXCEPT !.entries = <<>>])

\* JSON.stringify(store, null, 2): the text of a store document
stringify(st) == Text("store", st)

\* JSON.parse(text) gives a value with an entries array
ParsesToStore(text) == text # <<>> /\ text[1].json = "store"

\* JSON.parse(text) when it gives a store
parse(text) ==
    [version |-> text[1].version, projectId |-> text[1].projectId,
     lastUpdated |-> text[1].lastUpdated, entries |-> text[1].entries]

----------------------------------------------------------------------------
\* Inputs of the memory store

\* the project path the hooks are created for
projectPath == <<"/", "P", ":", "a", "/">>

\* String.toLowerCase on the characters in use
toLowerCase(c) == IF c = "P" THEN "p" ELSE c

RECURSIVE trimStart(_)
\* replace(/^-+/, '')
trimStart(s) == IF s # <<>> /\ Head(s) = "-" THEN trimStart(Tail(s)) ELSE s

RECURSIVE trimEnd(_)
\* replace(/-+$/, '')
trimEnd(s) ==
    IF s # <<>> /\ s[Len(s)] = "-" THEN trimEnd(SubSeq(s, 1, Len(s) - 1)) ELSE s

\* getProjectId()
getProjectId ==
    LET dashed == [i \in 1 .. Len(projectPath) |->
                      IF projectPath[i] \in {"\\", "/", ":"} THEN "-" ELSE projectPath[i]]
        trimmed == trimEnd(trimStart(dashed))
    IN  [i \in 1 .. Len(trimmed) |-> toLowerCase(trimmed[i])]

\* retention periods handed to pruneOldMemories, in days
AgeDays == {1, pruneDays}

\* timestamps just before, at and just after each retention cutoff, and the present
Timestamps ==
    {StartTime - d * DayTicks + k : d \in AgeDays, k \in {-1, 0, 1}} \cup {StartTime}

\* importances around the exemption bound 0.8
StoredImportances == {Frac(5, 10), Frac(8, 10), Frac(81, 100)}

\* an entry written by an earlier session
OldEntry(id, t, imp) ==
    [id |-> id, timestamp |-> t, sessionId |-> "s0", type |-> "finding",
     content |-> <<"old">>, importance |-> imp]

\* the stores of at most MaxEntries earlier entries, with ids 1, 2, ... in order
OldStores ==
    {[version |-> <<1>>, projectId |-> getProjectId, lastUpdated |-> StartTime,
      entries |-> [i \in 1 .. n |-> OldEntry(i, ts[i], imps[i])]] :
        n \in 0 .. MaxEntries,
        ts \in [1 .. MaxEntries -> Timestamps],
        imps \in [1 .. MaxEntries -> StoredImportances]}

\* an entry of a store handed to a library call: the i-th one, with its own content
Entry(i, sessionId, type) ==
    [id |-> i, timestamp |-> StartTime, sessionId |-> sessionId, type |-> type,
     content |-> <<"c" \o ToString(i)>>, importance |-> Frac(5, 10)]

\* randomUUID(): an id that no entry has
randomUUID(entries) ==
    CHOOSE n \in 1 .. Len(entries) + 1 : \A i \in 1 .. Len(entries) : entries[i].id # n

\* the sessions whose entries are in a store handed to compressSession
SessionIds == {"s0", "s1"}

\* the kinds of session s1's entries: d decisions, f findings, r entries that are
\* in turn error, preference and context, then s summaries; or all that reversed
SessionKinds(d, f, r, s, reversed) ==
    LET rest == <<"error", "preference", "context">>
        kinds == [i \in 1 .. d + f + r + s |->
                     IF i <= d THEN "decision"
                     ELSE IF i <= d + f THEN "finding"
                     ELSE IF i <= d + f + r THEN rest[((i - d - f - 1) % 3) + 1]
                     ELSE "summary"]
    IN  IF reversed THEN [i \in 1 .. Len(kinds) |-> kinds[Len(kinds) + 1 - i]] ELSE kinds

\* a store of session s1's entries of these kinds and o entries of session s0:
\* the first of s0 in front, the second in the middle, the others at the end
CompressStore(kinds, o) ==
    LET h == Len(kinds) \div 2
        s1(ks) == [i \in 1 .. Len(ks) |-> <<"s1", ks[i]>>]
        s0(n) == [i \in 1 .. n |-> <<"s0", "finding">>]
        all == s0(Min(o, 1)) \o s1(SubSeq(kinds, 1, h)) \o s0(Min(Max(o - 1, 0), 1))
                   \o s1(SubSeq(kinds, h + 1, Len(kinds))) \o s0(Max(o - 2, 0))
    IN  [version |-> <<1>>, projectId |-> getProjectId, lastUpdated |-> StartTime,
         entries |-> [i \in 1 .. Len(all) |-> Entry(i, all[i][1], all[i][2])]]

\* numbers of entries to compress around the threshold
CompressCounts == (compressThreshold - MaxOver - 1) .. (compressThreshold + MaxOver)

\* the stores handed to compressSession
CompressStores ==
    UNION {UNION {{CompressStore(SessionKinds(d, f, n - d - f, s, reversed), o) :
                      f \in 0 .. n - d, s \in 0 .. MaxEntries, o \in 0 .. MaxEntries,
                      reversed \in BOOLEAN} :
                  d \in 0 .. n} :
           n \in CompressCounts}

\* kinds and contents that make lines of 12, 13 and 33 characters: 3, 4 and 9 tokens
MemoryTexts ==
    {<<"error", <<"ab">>>>, <<"error", <<"abc">>>>,
     <<"decision", <<"abcdefghijklmnopqrst">>>>}

\* the lists of at most MaxMemories memories handed to formatForContext
MemoryLists ==
    UNION {{[i \in 1 .. n |-> [Entry(i, "s1", texts[i][1]) EXCEPT !.content = texts[i][2]]] :
               texts \in [1 .. n -> MemoryTexts]} :
           n \in 0 .. MaxMemories}

\* the values of maxTokens: from below the header's share up to room for some lines
Budgets == (headerTokens - 1) .. (headerTokens + 4 * MaxMemories)

\* the timestamps of n entries: rising or falling with the position, or in
\* pairs of equal value
ContextTimes(n, order) ==
    [i \in 1 .. n |->
        CASE order = "rising" -> StartTime + i
          [] order = "falling" -> StartTime + n - i
          [] order = "paired" -> StartTime + (i \div 2)]

\* the importances of n entries: all low; the three oldest at 0.9, at 0.7 and
\* just below 0.7; all at 0.8 or 0.9; the first and the last at 0.7 and 1
ContextImportances(n, pattern) ==
    [i \in 1 .. n |->
        CASE pattern = "low" -> Frac(5, 10)
          [] pattern = "first" -> (IF i = 1 THEN Frac(7, 10) ELSE IF i = 2 THEN Frac(9, 10)
                                   ELSE IF i = 3 THEN Frac(7, 10) - 1 ELSE Frac(5, 10))
          [] pattern = "all" -> (IF i % 2 = 0 THEN Frac(8, 10) ELSE Frac(9, 10))
          [] pattern = "ends" -> (IF i = 1 THEN Frac(7, 10) ELSE IF i = n THEN Scale
                                  ELSE Frac(6, 10))]

\* the stores whose memories are asked for: fewer entries than the limit of
\* recent memories, as many, and more
ContextStores ==
    {[version |-> <<1>>, projectId |-> getProjectId, lastUpdated |-> StartTime,
      entries |-> [i \in 1 .. n |->
                      OldEntry(i, ContextTimes(n, order)[i], ContextImportances(n, pattern)[i])]] :
        n \in {0, MaxBeyond, recentLimit, recentLimit + MaxBeyond},
        order \in {"rising", "falling", "paired"},
        pattern \in {"low", "first", "all", "ends"}}

\* the entries handed to addEntry for a store
NewEntries(st) ==
    {createMemoryEntry("s1", type, <<"new">>, Frac(5, 10), randomUUID(st.entries), StartTime) :
        type \in {"decision", "error"}}

NoLib ==
    [fn |-> "none", store |-> <<>>, arg |-> <<>>, days |-> 0, at |-> 0, out |-> <<>>,
     after |-> <<>>]

\* a memory-hooks instance for session sid right after createMemoryHooks()
NewHooks(sid) ==
    [sid |-> sid, store |-> <<>>, dirty |-> FALSE, ipc |-> "none", ppc |-> "idle",
     payload |-> <<>>, wrote |-> "none", raised |-> FALSE, overwrote |-> {}]

\* no run command
NoRun == [pc |-> "off"]

\* no second instance
NoPeer == NewHooks("none")

\* memory hooks right after createMemoryHooks()
NoSession ==
    /\ store = <<>>
    /\ dirty = FALSE
    /\ ipc = "none"
    /\ ppc = "idle"
    /\ payload = <<>>
    /\ wrote = "none"
    /\ raised = FALSE

----------------------------------------------------------------------------
\* Tracker: initial state and calls

\* no key was handed to addItem yet
NoFirsts == [whole |-> TRUE, costs |-> {}]

\* prune() or reset() was called: the first costs are no longer followed
Forgotten == [whole |-> FALSE, costs |-> {}]

\* the first costs after addItem was handed the key path with the cost tokens
Observed(known, path, tokens) ==
    IF ~known.whole \/ (\E c \in known.costs : c.path = path) THEN known
    ELSE [known EXCEPT !.costs = known.costs \cup {[path |-> path, tokens |-> tokens]}]

\* a tracker right after createContextTracker()
FreshTracker ==
    /\ state = [items |-> 1, totalTokensEstimate |-> 0, needsCompaction |-> FALSE,
                lastCompactionAt |-> <<>>]
    /\ arrays = [i \in ArrIds |-> <<>>]
    /\ snapshot = <<>>
    /\ snapTaken = <<>>
    /\ removed = <<>>
    /\ call = NoCall
    /\ tracked = {}
    /\ firsts = NoFirsts
    /\ ncalls = 0

InitTracker ==
    /\ mode = "tracker"
    /\ run = NoRun
    /\ peer = NoPeer
    /\ now = StartTime
    /\ FreshTracker
    /\ NoSession
    /\ file = AbsentFile
    /\ lib = NoLib

\* a search that costs one token for each result
searchCostPerResult(resultCount) == resultCount

\* the token cost trackSearch hands to addItem
searchCost(resultCount) == 100

\* the common part of the four track* calls: addItem(item, tokens)
Track(op, item, tokens, argument) ==
    LET r == addItem(state, arrays, item, tokens)
    IN  /\ ncalls < MaxCalls
        /\ state' = r.state
        /\ arrays' = r.arrays
        /\ call' = [Called(op) EXCEPT !.path = item.path,
                                  !.arg = argument,
                                  !.existed = (\E i \in 1 .. Len(Items) : Items[i].path = item.path),
                                  !.tokens = tokens]
        /\ tracked' = tracked \cup {item.path}
        /\ firsts' = Observed(firsts, item.path, tokens)
        /\ ncalls' = ncalls + 1
        /\ UNCHANGED <<memoryVars, mode, run, now, snapshot, snapTaken, removed>>

trackFile ==
    \E path \in FilePaths, tokens \in TokenCosts, summary \in Summaries :
        Track("trackFile",
              [path |-> path, type |-> "file", viewedAt |-> now,
               importance |-> calculateImportance("file"), summary |-> summary],
              tokens, path)

trackSymbol ==
    \E path \in SymbolFiles, symbolName \in SymbolNames, tokens \in TokenCosts :
        Track("trackSymbol",
              [path |-> path \o <<"#">> \o symbolName, type |-> "function", viewedAt |-> now,
               importance |-> calculateImportance("function"), summary |-> undefined],
              tokens, path \o <<"#">> \o symbolName)

trackSearch ==
    \E query \in Queries, resultCount \in ResultCounts :
        Track("trackSearch",
              [path |-> <<"s", "e", "a", "r", "c", "h", ":">> \o query, type |-> "search",
               viewedAt |-> now, importance |-> calculateImportance("search"),
               summary |-> ToString(resultCount) \o " results"],
              searchCost(resultCount), query)

trackCommand ==
    \E command \in Commands, outputTokens \in TokenCosts :
        Track("trackCommand",
              [path |-> <<"c", "m", "d", ":">> \o substring50(command), type |-> "command",
               viewedAt |-> now, importance |-> calculateImportance("command"),
               summary |-> undefined],
              outputTokens, command)

\* getState: a new object with the fields of state copied ({ ...state })
getState ==
    LET snap == <<[items |-> state.items,
                   totalTokensEstimate |-> state.totalTokensEstimate,
                   needsCompaction |-> state.needsCompaction,
                   lastCompactionAt |-> state.lastCompactionAt]>>
    IN  /\ ncalls < MaxCalls
        /\ snapshot' = snap
        /\ snapTaken' = <<[items |-> Items,
                           totalTokensEstimate |-> state.totalTokensEstimate,
                           needsCompaction |-> state.needsCompaction]>>
        /\ arrays' = Collect(arrays, state, snap)
        /\ call' = Called("getState")
        /\ ncalls' = ncalls + 1
        /\ UNCHANGED <<memoryVars, mode, run, state, now, removed, tracked, firsts>>

\* markCompacted that also clears the token estimate
markCompactedStateZeroing(st, t) ==
    [st EXCEPT !.needsCompaction = FALSE, !.lastCompactionAt = <<t>>,
               !.totalTokensEstimate = 0]

\* markCompacted that credits half of the token estimate on every call
markCompactedStateHalving(st, t) ==
    [st EXCEPT !.needsCompaction = FALSE, !.lastCompactionAt = <<t>>,
               !.totalTokensEstimate = st.totalTokensEstimate \div 2]

\* the state object of markCompacted
markCompactedState(st, t) == [st EXCEPT !.needsCompaction = FALSE, !.lastCompactionAt = <<t>>]

markCompacted ==
    /\ ncalls < MaxCalls
    /\ state' = markCompactedState(state, now)
    /\ call' = Called("markCompacted")
    /\ ncalls' = ncalls + 1
    /\ UNCHANGED <<memoryVars, mode, run, arrays, now, snapshot, snapTaken, removed, tracked, firsts>>

\* applyDecay whose new items are stamped with the time of the call
decayedStamping(items) ==
    [i \in 1 .. Len(items) |->
        [items[i] EXCEPT !.importance = (items[i].importance * decayNum) \div decayDen,
                         !.viewedAt = now]]

\* items.map((item) => ({ ...item, importance: item.importance * rate }))
decayed(items) ==
    [i \in 1 .. Len(items) |->
        [items[i] EXCEPT !.importance = (items[i].importance * decayNum) \div decayDen]]

\* every product by the decay rate is exact: holds for MaxDecays decays of an item
CanDecay(items) == \A i \in 1 .. Len(items) : (items[i].importance * decayNum) % decayDen = 0

applyDecay ==
    LET id == Alloc(state, snapshot)
        st == [state EXCEPT !.items = id]
    IN  /\ ncalls < MaxCalls
        /\ CanDecay(Items)
        /\ state' = st
        /\ arrays' = Collect([arrays EXCEPT ![id] = decayed(Items)], st, snapshot)
        /\ call' = Called("applyDecay")
        /\ ncalls' = ncalls + 1
        /\ UNCHANGED <<memoryVars, mode, run, now, snapshot, snapTaken, removed, tracked, firsts>>

\* prune that also removes the items whose importance equals the threshold
pruneResultInclusive(items, importanceThreshold) ==
    LET atMost(item) == item.importance <= importanceThreshold
        above(item) == item.importance > importanceThreshold
    IN  [removed |-> SelectSeq(items, atMost),
         items |-> SelectSeq(items, above),
         totalTokensEstimate |-> SumEstimates(items)]

\* the surviving items, the new total and the returned items of prune
pruneResult(items, importanceThreshold) ==
    LET below(item) == item.importance < importanceThreshold
        atLeast(item) == item.importance >= importanceThreshold
    IN  [removed |-> SelectSeq(items, below),
         items |-> SelectSeq(items, atLeast),
         totalTokensEstimate |-> SumEstimates(items)]

prune ==
    \E importanceThreshold \in PruneThresholds :
        LET r == pruneResult(Items, importanceThreshold)
            id == Alloc(state, snapshot)
            st == checkCompactionNeeded(
                      [state EXCEPT !.items = id,
                                    !.totalTokensEstimate = r.totalTokensEstimate])
        IN  /\ ncalls < MaxCalls
            /\ state' = st
            /\ arrays' = Collect([arrays EXCEPT ![id] = r.items], st, snapshot)
            /\ removed' = r.removed
            /\ call' = [Called("prune") EXCEPT !.threshold = importanceThreshold]
            /\ ncalls' = ncalls + 1
            /\ firsts' = Forgotten
            /\ UNCHANGED <<memoryVars, mode, run, now, snapshot, snapTaken, tracked>>

reset ==
    LET id == Alloc(state, snapshot)
        st == [items |-> id, totalTokensEstimate |-> 0, needsCompaction |-> FALSE,
               lastCompactionAt |-> <<>>]
    IN  /\ ncalls < MaxCalls
        /\ state' = st
        /\ arrays' = Collect([arrays EXCEPT ![id] = <<>>], st, snapshot)
        /\ call' = Called("reset")
        /\ ncalls' = ncalls + 1
        /\ firsts' = Forgotten
        /\ UNCHANGED <<memoryVars, mode, run, now, snapshot, snapTaken, removed, tracked>>

\* time passes before a call
Tick ==
    /\ now < StartTime + MaxTicks
    /\ ncalls < MaxCalls
    /\ now' = now + 1
    /\ UNCHANGED <<trackerVars, memoryVars, mode, run>>

NextTracker ==
    \/ trackFile
    \/ trackSymbol
    \/ trackSearch
    \/ trackCommand
    \/ getState
    \/ markCompacted
    \/ applyDecay
    \/ prune
    \/ reset
    \/ Tick

Spec == InitTracker /\ [][NextTracker]_vars

\* the tracker as the plugin's tool handler drives it: track* calls, getState and
\* applyDecay, and none of markCompacted, prune and reset
NextDriven ==
    \/ trackFile
    \/ trackSymbol
    \/ trackSearch
    \/ trackCommand
    \/ getState
    \/ applyDecay
    \/ Tick

DrivenSpec == InitTracker /\ [][NextDriven]_vars

----------------------------------------------------------------------------
\* Library mode: memory-format.ts called on a store

InitLibrary ==
    /\ mode = "library"
    /\ run = NoRun
    /\ peer = NoPeer
    /\ now = StartTime
    /\ FreshTracker
    /\ NoSession
    /\ file = AbsentFile
    /\ \/ \E st \in OldStores : lib = [NoLib EXCEPT !.store = <<st>>]
       \/ lib = NoLib

\* pruneOld(store, maxAgeDays)
pruneOld ==
    /\ mode = "library"
    /\ lib.fn = "none"
    /\ lib.store # <<>>
    /\ UNCHANGED <<trackerVars, file, hookVars, now, mode, run>>
    /\ \E maxAgeDays \in AgeDays :
          lib' = [lib EXCEPT !.fn = "pruneOld", !.days = maxAgeDays, !.at = now,
                             !.out = <<pruneOldMemories(lib.store[1], maxAgeDays, now)>>]

\* a library call on arguments of its own
LibraryCall ==
    /\ mode = "library"
    /\ lib = NoLib
    /\ UNCHANGED <<trackerVars, file, hookVars, now, mode, run>>

\* compressSession(store, sessionId)
compressSession ==
    /\ LibraryCall
    /\ \E st \in CompressStores, sessionId \in SessionIds :
          lib' = [lib EXCEPT !.fn = "compressSession", !.store = <<st>>,
                             !.arg = <<sessionId>>, !.at = now,
                             !.out = <<compressMemories(st, sessionId,
                                                        randomUUID(st.entries), now)>>]

\* addEntry(store, entry)
addEntry ==
    /\ LibraryCall
    /\ \E st \in OldStores : \E entry \in NewEntries(st) :
          LET result == addMemoryEntry(st, entry, now)
          IN  lib' = [lib EXCEPT !.fn = "addEntry", !.store = <<st>>, !.arg = <<entry>>,
                                 !.at = now, !.out = <<result.returned>>,
                                 !.after = <<result.argument>>]

\* formatForContext(entries, maxTokens)
formatForContext ==
    /\ LibraryCall
    /\ \E memories \in MemoryLists, budget \in Budgets :
          lib' = [lib EXCEPT !.fn = "formatForContext", !.arg = <<memories, budget>>,
                             !.at = now,
                             !.out = formatMemoriesForContext(memories, budget)]

\* getContextString(maxTokens) on a store: the entries handed to
\* formatMemoriesForContext and the string returned
contextString ==
    /\ LibraryCall
    /\ \E st \in ContextStores :
          lib' = [lib EXCEPT !.fn = "getContextString", !.store = <<st>>, !.at = now,
                             !.arg = contextMemories(st),
                             !.out = getContextString(<<st>>, 2000)]

----------------------------------------------------------------------------
\* Session mode: memory-hooks.ts

\* what the file holds when the session starts
StartFiles ==
    {AbsentFile, UnreadableFile, NotJsonFile, EmptyObjectFile}
        \cup {[kind |-> "text", text |-> stringify([st EXCEPT !.version = v])] :
                st \in OldStores, v \in {<<1>>, <<2>>, <<>>}}

InitSession ==
    /\ mode = "session"
    /\ run = NoRun
    /\ peer = NoPeer
    /\ now = StartTime
    /\ FreshTracker
    /\ NoSession
    /\ file \in StartFiles
    /\ lib = NoLib

\* the sessionId the hooks are created for
sessionId == "s1"

\* addEntry of the hooks that stores the importance as it is given
hookAddEntryUnclamped(sid, st, wasDirty, type, content, importance, uuid, t) ==
    IF st = <<>> THEN [store |-> st, dirty |-> wasDirty]
    ELSE LET entry == [id |-> uuid, timestamp |-> t, sessionId |-> sid,
                       type |-> type, content |-> content, importance |-> importance]
         IN  [store |-> <<addMemoryEntry(st[1], entry, t).returned>>, dirty |-> TRUE]

\* addEntry that makes a new store when there is none yet
hookAddEntryCreating(sid, st, wasDirty, type, content, importance, uuid, t) ==
    LET entry == [id |-> uuid, timestamp |-> t, sessionId |-> sid,
                  type |-> type, content |-> content,
                  importance |-> Max(0, Min(Scale, importance))]
        held == IF st = <<>> THEN createMemoryStore(getProjectId, t) ELSE st[1]
    IN  [store |-> <<addMemoryEntry(held, entry, t).returned>>, dirty |-> TRUE]

\* addEntry(type, content, importance) of the hooks created for session sid, on
\* store st: the new values of store and dirty
hookAddEntry(sid, st, wasDirty, type, content, importance, uuid, t) ==
    IF st = <<>> THEN [store |-> st, dirty |-> wasDirty]
    ELSE LET entry == [id |-> uuid, timestamp |-> t, sessionId |-> sid,
                       type |-> type, content |-> content,
                       importance |-> Max(0, Min(Scale, importance))]
         IN  [store |-> <<addMemoryEntry(st[1], entry, t).returned>>, dirty |-> TRUE]

\* the try block of initialize() once readFile has settled: readFile rejects, or
\* JSON.parse throws, or store is assigned and pruneOldMemories(store, 30) throws
\* on the missing entries, or store is assigned the pruned store
tryLoad(f, t) ==
    IF f.kind = "unreadable" THEN [threw |-> TRUE, store |-> <<>>]
    ELSE IF f.text[1].json = "invalid" THEN [threw |-> TRUE, store |-> <<>>]
    ELSE IF ~ParsesToStore(f.text) THEN [threw |-> TRUE, store |-> <<parse(f.text)>>]
    ELSE [threw |-> FALSE, store |-> <<pruneOldMemories(parse(f.text), pruneDays, t)>>]

\* initialize() without its catch block
initializeSettledRethrowing(attempt, t) ==
    [store |-> attempt.store, raised |-> attempt.threw]

\* how initialize() ends after its try block: the catch block makes a new store
initializeSettled(attempt, t) ==
    IF attempt.threw
    THEN [store |-> <<createMemoryStore(getProjectId, t)>>, raised |-> FALSE]
    ELSE [store |-> attempt.store, raised |-> FALSE]

\* initialize() up to its first await: existsSync, then readFile or a new store
initialize ==
    /\ mode = "session"
    /\ ipc = "none"
    /\ ncalls < MaxCalls
    /\ ncalls' = ncalls + 1
    /\ call' = Called("initialize")
    /\ IF file.kind # "absent"
       THEN /\ ipc' = "reading"
            /\ UNCHANGED <<store, dirty>>
       ELSE /\ ipc' = "done"
            /\ store' = <<createMemoryStore(getProjectId, now)>>
            /\ dirty' = TRUE
    /\ UNCHANGED <<state, arrays, snapshot, snapTaken, removed, tracked, firsts>>
    /\ UNCHANGED <<lib, peer, file, ppc, payload, wrote, raised, now, mode, run>>

\* initialize() after readFile: JSON.parse, pruneOldMemories(store, 30); any
\* exception (readFile, JSON.parse, .filter of a missing entries) gives a new store
initializeLoaded ==
    /\ mode = "session"
    /\ ipc = "reading"
    /\ ipc' = "done"
    /\ LET settled == initializeSettled(tryLoad(file, now), now)
       IN  /\ store' = settled.store
           /\ raised' = settled.raised
           /\ dirty' = IF settled.raised THEN dirty ELSE TRUE
    /\ UNCHANGED <<trackerVars, lib, peer, file, ppc, payload, wrote, now, mode, run>>

\* the importances a caller asks for beside the defaults: below 0 and above 1
Requested == {Frac(-1, 2), Frac(3, 2)}

\* the number of entries this session has in its store
Added ==
    LET own(e) == e.sessionId = sessionId
    IN  IF store = <<>> THEN 0 ELSE Len(SelectSeq(store[1].entries, own))

\* the content of the entries added
Contents == {<<"new">>}

\* an add* wrapper called with its default importance or with a requested one
Add(op, type, content, default) ==
    /\ mode = "session"
    /\ ncalls < MaxCalls
    /\ Added < MaxAdds
    /\ \E importance \in {default} \cup Requested :
          LET uuid == IF store = <<>> THEN 1 ELSE randomUUID(store[1].entries)
              added == hookAddEntry(sessionId, store, dirty, type, content, importance, uuid, now)
          IN  /\ store' = added.store
              /\ dirty' = added.dirty
              /\ call' = [Called(op) EXCEPT !.importance = importance]
    /\ ncalls' = ncalls + 1
    /\ wrote' = "none"
    /\ UNCHANGED <<state, arrays, snapshot, snapTaken, removed, tracked, firsts>>
    /\ UNCHANGED <<lib, peer, file, ipc, ppc, payload, raised, now, mode, run>>

\* addDecision(content, importance = 0.8)
addDecision == \E content \in Contents : Add("addDecision", "decision", content, Frac(8, 10))

\* addFinding(content, importance = 0.6)
addFinding == \E content \in Contents : Add("addFinding", "finding", content, Frac(6, 10))

\* addError(content, importance = 0.9)
addError == \E content \in Contents : Add("addError", "error", content, Frac(9, 10))

\* addPreference(content, importance = 0.7)
addPreference == \E content \in Contents : Add("addPreference", "preference", content, Frac(7, 10))

\* addContext(content, importance = 0.5)
addContext == \E content \in Contents : Add("addContext", "context", content, Frac(5, 10))

\* persist() that checks the store only
persistStartsAlways(st, isDirty) == st # <<>>

\* persist() goes on to write: not `if (!store || !dirty) return`
persistStarts(st, isDirty) == st # <<>> /\ isDirty

\* persist() up to its first await: nothing to do, or mkdir
persist ==
    /\ mode = "session"
    /\ ppc = "idle"
    /\ ncalls < MaxCalls
    /\ ncalls' = ncalls + 1
    /\ call' = Called("persist")
    /\ ppc' = IF persistStarts(store, dirty) THEN "mkdir" ELSE "idle"
    /\ UNCHANGED <<state, arrays, snapshot, snapTaken, removed, tracked, firsts>>
    /\ UNCHANGED <<lib, peer, file, store, dirty, ipc, payload, wrote, raised, now, mode, run>>

\* persist() whose catch block clears dirty
persistFailedClearing(wasDirty) == [dirty |-> FALSE, raised |-> FALSE]

\* how persist() ends when mkdir or writeFile rejects: the catch block logs
persistFailed(wasDirty) == [dirty |-> wasDirty, raised |-> FALSE]

\* persist() after mkdir: JSON.stringify(store) is handed to writeFile, or mkdir
\* has rejected
persistMkdir ==
    /\ mode = "session"
    /\ ppc = "mkdir"
    /\ \/ /\ ppc' = "writing"
          /\ payload' = stringify(store[1])
          /\ UNCHANGED <<dirty, wrote, raised>>
       \/ LET failed == persistFailed(dirty)
          IN  /\ ppc' = "idle"
              /\ dirty' = failed.dirty
              /\ raised' = failed.raised
              /\ wrote' = "failed"
              /\ UNCHANGED payload
    /\ UNCHANGED <<trackerVars, lib, peer, file, store, ipc, now, mode, run>>

\* writeFile that adds the entries of the text to those the file holds
writeFileMerging(f, text) ==
    IF f.kind = "text" /\ ParsesToStore(f.text)
    THEN [kind |-> "text",
          text |-> stringify([parse(text) EXCEPT
                                 !.entries = parse(f.text).entries \o parse(text).entries])]
    ELSE [kind |-> "text", text |-> text]

\* writeFile(memoryPath, text) resolved, on file f: the file holds the text only
writeFile(f, text) == [kind |-> "text", text |-> text]

\* persist() after writeFile has resolved: the file holds the text, dirty = false
persistWritten ==
    /\ mode = "session"
    /\ ppc = "writing"
    /\ ppc' = "idle"
    /\ file' = writeFile(file, payload)
    /\ dirty' = FALSE
    /\ wrote' = "ok"
    /\ payload' = <<>>
    /\ UNCHANGED <<trackerVars, lib, peer, store, ipc, raised, now, mode, run>>

\* persist() after writeFile has rejected: the file is as it was or cut short
persistRejected ==
    /\ mode = "session"
    /\ ppc = "writing"
    /\ ppc' = "idle"
    /\ file' \in {file, NotJsonFile}
    /\ LET failed == persistFailed(dirty)
       IN  /\ dirty' = failed.dirty
           /\ raised' = failed.raised
    /\ wrote' = "failed"
    /\ payload' = <<>>
    /\ UNCHANGED <<trackerVars, lib, peer, store, ipc, now, mode, run>>

\* createEntry(sessionId, type, content, importance)
createEntry ==
    /\ LibraryCall
    /\ \E type \in {"decision", "summary"}, importance \in {Frac(5, 10)} \cup Requested :
          lib' = [lib EXCEPT !.fn = "createEntry", !.arg = <<type, importance>>, !.at = now,
                             !.out = <<createMemoryEntry(sessionId, type, <<"new">>,
                                                         importance, 1, now)>>]

\* the files a session that adds and persists starts from
HookFiles ==
    {AbsentFile, NotJsonFile,
     [kind |-> "text",
      text |-> stringify([createMemoryStore(getProjectId, StartTime)
                             EXCEPT !.entries = <<OldEntry(1, StartTime, Frac(5, 10))>>])]}

InitHooks ==
    /\ mode = "session"
    /\ run = NoRun
    /\ peer = NoPeer
    /\ now = StartTime
    /\ FreshTracker
    /\ NoSession
    /\ file \in HookFiles
    /\ lib = NoLib

NextHooks ==
    \/ createEntry
    \/ initialize
    \/ initializeLoaded
    \/ addDecision
    \/ addFinding
    \/ addError
    \/ addPreference
    \/ addContext
    \/ persist
    \/ persistMkdir
    \/ persistWritten
    \/ persistRejected
    \/ Tick

HooksSpec == (InitHooks \/ (InitLibrary /\ lib = NoLib)) /\ [][NextHooks]_vars

----------------------------------------------------------------------------
\* Two sessions on one project file: a second memory-hooks instance

\* the sessionId the second instance is created for
peerSessionId == "s2"

\* randomUUID() in the second process: an id that no entry of the first has
peerUUID(entries) == 100 + randomUUID(entries)

\* a call on the second instance; nothing of the first instance changes
PeerCall ==
    /\ mode = "session"
    /\ peer.sid # "none"
    /\ UNCHANGED <<trackerVars, lib, sessionVars, now, mode, run>>

\* a step of the second instance after an await
PeerStep ==
    /\ mode = "session"
    /\ peer.sid # "none"
    /\ UNCHANGED <<trackerVars, lib, sessionVars, now, mode, run>>

\* initialize() of the second instance up to its first await
peerInitialize ==
    /\ PeerCall
    /\ peer.ipc = "none"
    /\ peer' = IF file.kind # "absent"
               THEN [peer EXCEPT !.ipc = "reading"]
               ELSE [peer EXCEPT !.ipc = "done", !.dirty = TRUE,
                                 !.store = <<createMemoryStore(getProjectId, now)>>]
    /\ UNCHANGED file

\* initialize() of the second instance after readFile
peerInitializeLoaded ==
    /\ PeerStep
    /\ peer.ipc = "reading"
    /\ LET settled == initializeSettled(tryLoad(file, now), now)
       IN  peer' = [peer EXCEPT !.ipc = "done", !.store = settled.store,
                                !.raised = settled.raised,
                                !.dirty = IF settled.raised THEN @ ELSE TRUE]
    /\ UNCHANGED file

\* the number of entries the second session has in its store
PeerAdded ==
    LET own(e) == e.sessionId = peer.sid
    IN  IF peer.store = <<>> THEN 0 ELSE Len(SelectSeq(peer.store[1].entries, own))

\* addDecision(content) of the second instance
peerAddDecision ==
    /\ PeerCall
    /\ PeerAdded < MaxPeerAdds
    /\ \E content \in Contents :
          LET uuid == IF peer.store = <<>> THEN 1 ELSE peerUUID(peer.store[1].entries)
              added == hookAddEntry(peer.sid, peer.store, peer.dirty, "decision", content,
                                    Frac(8, 10), uuid, now)
          IN  peer' = [peer EXCEPT !.store = added.store, !.dirty = added.dirty,
                                   !.wrote = "none"]
    /\ UNCHANGED file

\* persist() of the second instance up to its first await
peerPersist ==
    /\ PeerCall
    /\ peer.ppc = "idle"
    /\ peer' = [peer EXCEPT !.ppc = IF persistStarts(peer.store, peer.dirty)
                                    THEN "mkdir" ELSE "idle"]
    /\ UNCHANGED file

\* persist() of the second instance after mkdir
peerPersistMkdir ==
    /\ PeerStep
    /\ peer.ppc = "mkdir"
    /\ \/ peer' = [peer EXCEPT !.ppc = "writing", !.payload = stringify(peer.store[1])]
       \/ LET failed == persistFailed(peer.dirty)
          IN  peer' = [peer EXCEPT !.ppc = "idle", !.dirty = failed.dirty,
                                   !.raised = failed.raised, !.wrote = "failed"]
    /\ UNCHANGED file

\* the entries of the file, if it holds a store document
FileEntries(f) ==
    IF f.kind = "text" /\ ParsesToStore(f.text) THEN Range(parse(f.text).entries) ELSE {}

\* persist() of the second instance after writeFile has resolved
peerPersistWritten ==
    /\ PeerStep
    /\ peer.ppc = "writing"
    /\ file' = writeFile(file, peer.payload)
    /\ peer' = [peer EXCEPT !.ppc = "idle", !.dirty = FALSE, !.wrote = "ok",
                            !.payload = <<>>,
                            !.overwrote = @ \cup (FileEntries(file) \ FileEntries(file'))]

\* persist() of the second instance after writeFile has rejected
peerPersistRejected ==
    /\ PeerStep
    /\ peer.ppc = "writing"
    /\ file' \in {file, NotJsonFile}
    /\ LET failed == persistFailed(peer.dirty)
       IN  peer' = [peer EXCEPT !.ppc = "idle", !.dirty = failed.dirty,
                                !.raised = failed.raised, !.wrote = "failed",
                                !.payload = <<>>,
                                !.overwrote = @ \cup (FileEntries(file) \ FileEntries(file'))]

\* the files two sessions start from: none, or a store with an entry that is one
\* tick short of 30 days old and an older one of importance 0.81
PairFiles ==
    {AbsentFile,
     [kind |-> "text",
      text |-> stringify([createMemoryStore(getProjectId, StartTime)
                 EXCEPT !.entries =
                     <<OldEntry(1, StartTime - pruneDays * DayTicks + 1, Frac(5, 10)),
                       OldEntry(2, StartTime - pruneDays * DayTicks - 1, Frac(81, 100))>>])]}

InitPair ==
    /\ mode = "session"
    /\ run = NoRun
    /\ peer = NewHooks(peerSessionId)
    /\ now = StartTime
    /\ FreshTracker
    /\ NoSession
    /\ file \in PairFiles
    /\ lib = NoLib

NextPair ==
    \/ initialize
    \/ initializeLoaded
    \/ addDecision
    \/ persist
    \/ persistMkdir
    \/ persistWritten
    \/ persistRejected
    \/ peerInitialize
    \/ peerInitializeLoaded
    \/ peerAddDecision
    \/ peerPersist
    \/ peerPersistMkdir
    \/ peerPersistWritten
    \/ peerPersistRejected

\* two sessions that add and persist side by side, the clock standing still
PairSpec == InitPair /\ [][NextPair]_vars

NextReload ==
    \/ initialize
    \/ initializeLoaded
    \/ addDecision
    \/ persist
    \/ persistMkdir
    \/ persistWritten
    \/ persistRejected
    \/ peerInitialize
    \/ peerInitializeLoaded
    \/ Tick

\* a session that adds and persists, and a new instance that loads the file
ReloadSpec == InitPair /\ [][NextReload]_vars

NextMemory ==
    \/ pruneOld
    \/ compressSession
    \/ addEntry
    \/ formatForContext
    \/ contextString
    \/ initialize
    \/ initializeLoaded
    \/ Tick

MemSpec == (InitLibrary \/ InitSession) /\ [][NextMemory]_vars

\* Retention: a store that compressSession returned, kept for a long time, pruned
\* and loaded again. lib.store is what compressSession was given, lib.after what
\* it returned and lib.out the store as it is now.

InitRetention == InitLibrary /\ lib = NoLib

\* the store compressSession returned is the one that is kept
compressKept ==
    /\ mode = "library"
    /\ lib.fn = "compressSession"
    /\ lib.after = <<>>
    /\ lib' = [lib EXCEPT !.after = lib.out]
    /\ UNCHANGED <<trackerVars, file, hookVars, now, mode, run>>

\* a whole retention period goes by
daysPass ==
    /\ mode = "library"
    /\ lib.after # <<>>
    /\ now + pruneDays * DayTicks <= StartTime + MaxPeriods * pruneDays * DayTicks
    /\ now' = now + pruneDays * DayTicks
    /\ UNCHANGED <<trackerVars, memoryVars, mode, run>>

\* pruneOld(store, maxAgeDays) on the kept store
pruneOldLater ==
    /\ mode = "library"
    /\ lib.after # <<>>
    /\ UNCHANGED <<trackerVars, file, hookVars, now, mode, run>>
    /\ \E maxAgeDays \in AgeDays :
          lib' = [lib EXCEPT !.fn = "pruneOldLater", !.days = maxAgeDays,
                             !.out = <<pruneOldMemories(lib.out[1], maxAgeDays, now)>>]

\* the kept store is written to the file and a later initialize() loads it
initializeLater ==
    /\ mode = "library"
    /\ lib.after # <<>>
    /\ UNCHANGED <<trackerVars, file, hookVars, now, mode, run>>
    /\ LET written == [kind |-> "text", text |-> stringify(lib.out[1])]
           settled == initializeSettled(tryLoad(written, now), now)
       IN  lib' = [lib EXCEPT !.fn = "initializeLater", !.days = pruneDays,
                              !.out = settled.store]

NextRetention ==
    \/ compressSession
    \/ compressKept
    \/ daysPass
    \/ pruneOldLater
    \/ initializeLater

RetentionSpec == InitRetention /\ [][NextRetention]_vars

----------------------------------------------------------------------------
\* The plugin: HarnessPlugin's handlers on one tracker and one memory-hooks
\* instance. The handlers exist once `await memory.initialize()` has returned;
\* nothing in the plugin calls an add* function.

\* the event types the host sends; message.updated stands for every other type
EventTypes == {"session.start", "session.idle", "session.end", "message.updated"}

\* the event handler with persist under the session.start case as well
eventPersistsOnStart(type) == type \in {"session.start", "session.idle", "session.end"}

\* the switch of the event handler: the cases that call memory.persist()
eventPersists(type) == type \in {"session.idle", "session.end"}

\* the event handler up to its first await: app.log for session.start, persist()
\* up to its own first await for session.idle and session.end, nothing otherwise
event ==
    /\ mode = "session"
    /\ ipc = "done"
    /\ ppc = "idle"
    /\ ncalls < MaxCalls
    /\ ncalls' = ncalls + 1
    /\ \E type \in EventTypes :
          /\ call' = [Called("event") EXCEPT !.arg = <<type>>]
          /\ ppc' = IF eventPersists(type) /\ persistStarts(store, dirty) THEN "mkdir" ELSE "idle"
    /\ UNCHANGED <<state, arrays, snapshot, snapTaken, removed, tracked, firsts>>
    /\ UNCHANGED <<lib, peer, file, store, dirty, ipc, payload, wrote, raised, now, mode, run>>

\* the tool names of the post-execution records; edit stands for every other name
Tools == {"read", "grep", "search", "bash", "shell", "edit"}

\* an optional string argument: <<>> when the key is missing, <<s>> when it is s
Present(arg) == arg # <<>>

\* if (arg): undefined and the empty string are falsy
truthy(arg) == Present(arg) /\ arg[1] # <<>>

\* _output.args of the records: no key, every key with an empty string, every
\* key with a string
ToolArgs ==
    {[filePath |-> <<>>, query |-> <<>>, command |-> <<>>],
     [filePath |-> << <<>> >>, query |-> << <<>> >>, command |-> << <<>> >>],
     [filePath |-> << <<"a">> >>, query |-> << <<"q">> >>, command |-> << x50 \o <<"1">> >>]}

\* the result strings: 0, 4 and 5 characters, none or two of them newlines
ToolResults == {<<>>, <<"d", "o", "n", "e">>, <<"o", "\n", "k", "\n", "!">>}

\* Math.floor(result.length / 4) in place of Math.ceil
resultTokensFloor(result) == Len(result) \div 4

\* Math.ceil(result.length / 4)
resultTokens(result) == (Len(result) + 3) \div 4

\* (result.match(/\n/g) || []).length
resultCount(result) ==
    LET newline(c) == c = "\n"
    IN  Len(SelectSeq(result, newline))

\* the tracker calls tool.execute.after makes for one record, in order: the three
\* `if (tool === ...)` blocks, each with its `if (argument)` inside
toolTracking(tool, args, result) ==
    (IF tool = "read" /\ truthy(args.filePath)
     THEN <<[op |-> "trackFile", arg |-> args.filePath[1], n |-> resultTokens(result)]>>
     ELSE <<>>)
    \o (IF tool \in {"grep", "search"} /\ truthy(args.query)
        THEN <<[op |-> "trackSearch", arg |-> args.query[1], n |-> resultCount(result)]>>
        ELSE <<>>)
    \o (IF tool \in {"bash", "shell"} /\ truthy(args.command)
        THEN <<[op |-> "trackCommand", arg |-> args.command[1], n |-> resultTokens(result)]>>
        ELSE <<>>)

\* the item and the token cost that the tracker call c hands to addItem at time t
\* (trackFile without a summary, trackSearch, trackCommand)
trackedItem(c, t) ==
    CASE c.op = "trackFile" ->
            [item |-> [path |-> c.arg, type |-> "file", viewedAt |-> t,
                       importance |-> calculateImportance("file"), summary |-> undefined],
             tokens |-> c.n]
      [] c.op = "trackSearch" ->
            [item |-> [path |-> <<"s", "e", "a", "r", "c", "h", ":">> \o c.arg, type |-> "search",
                       viewedAt |-> t, importance |-> calculateImportance("search"),
                       summary |-> ToString(c.n) \o " results"],
             tokens |-> searchCost(c.n)]
      [] c.op = "trackCommand" ->
            [item |-> [path |-> <<"c", "m", "d", ":">> \o substring50(c.arg), type |-> "command",
                       viewedAt |-> t, importance |-> calculateImportance("command"),
                       summary |-> undefined],
             tokens |-> c.n]

RECURSIVE ObservedAll(_, _, _)
\* the first costs after the tracker calls cs made at time t
ObservedAll(known, cs, t) ==
    IF cs = <<>> THEN known
    ELSE LET first == trackedItem(Head(cs), t)
         IN  ObservedAll(Observed(known, first.item.path, first.tokens), Tail(cs), t)

RECURSIVE trackAll(_, _, _, _)
\* the state object and the heap after the tracker calls cs made at time t
trackAll(st, arrs, cs, t) ==
    IF cs = <<>> THEN [state |-> st, arrays |-> arrs]
    ELSE LET first == trackedItem(Head(cs), t)
             r == addItem(st, arrs, first.item, first.tokens)
         IN  trackAll(r.state, r.arrays, Tail(cs), t)

\* the tool.execute.after handler: the tracker calls of the record, getState()
\* for the compaction warning (the copy is dropped when the handler returns and
\* the warning is only logged), then applyDecay()
toolExecuteAfter ==
    /\ mode = "session"
    /\ ipc = "done"
    /\ ncalls < MaxHandled
    /\ ncalls' = ncalls + 1
    /\ \E tool \in Tools, args \in ToolArgs, result \in ToolResults :
          LET made == toolTracking(tool, args, result)
              r == trackAll(state, arrays, made, now)
              id == Alloc(r.state, snapshot)
              st == [r.state EXCEPT !.items = id]
              items == r.arrays[r.state.items]
              keys == {trackedItem(made[i], now).item.path : i \in 1 .. Len(made)}
          IN  /\ CanDecay(items)
              /\ state' = st
              /\ arrays' = Collect([r.arrays EXCEPT ![id] = decayed(items)], st, snapshot)
              /\ tracked' = tracked \cup keys
              /\ firsts' = ObservedAll(firsts, made, now)
              /\ call' = [Called("tool.execute.after") EXCEPT
                             !.arg = [tool |-> tool, args |-> args, result |-> result],
                             !.out = made,
                             !.existed = (\E i \in 1 .. Len(Items) : Items[i].path \in keys)]
    /\ UNCHANGED <<memoryVars, mode, run, now, snapshot, snapTaken, removed>>

\* The context-nav tool. A text is the sequence of its pieces; the marks before
\* the messages are written [x], [v] and [!]

\* getByImportance(): a sorted copy of the items
getByImportance(items) == sortDescending(items, "importance")

\* getRecent(limit): the first limit items of a copy sorted by viewedAt
getRecent(items, limit) ==
    LET sorted == sortDescending(items, "viewedAt")
    IN  SubSeq(sorted, 1, Min(limit, Len(sorted)))

\* hasSeen(path)
hasSeen(items, path) == \E i \in 1 .. Len(items) : items[i].path = path

\* the minutes of one clock tick
MinutesPerTick == (24 * 60) \div DayTicks

\* Math.round((Date.now() - then) / 60000)
minutesAgo(then, t) == (t - then) * MinutesPerTick

\* (importance * 100).toFixed(0)
percent(importance) == (importance * 100 + Scale \div 2) \div Scale

\* formatForPrompt()
formatForPrompt(st, items) ==
    LET top == SubSeq(getByImportance(items), 1, Min(20, Len(items)))
        recent == getRecent(items, 5)
        viewed == [i \in 1 .. Len(recent) |-> <<"- ", recent[i].type, ": ">> \o recent[i].path]
        high == [i \in 1 .. Min(5, Len(top)) |->
                    <<"- [", ToString(percent(top[i].importance)), "%] ">> \o top[i].path]
        lines == <<<<"## Context Navigator">>, <<>>, <<"**Recently Viewed:**">>>>
                     \o viewed \o <<<<>>, <<"**High Importance:**">>>> \o high
                     \o (IF st.needsCompaction
                         THEN <<<<>>, <<"[!] **Context approaching limit - consider compacting**">>>>
                         ELSE <<>>)
    IN  join(lines, <<"\n">>)

\* formatStatus(tracker); the number is written without digit grouping
formatStatus(st, items, t) ==
    LET lines == <<<<"## Context Status">>, <<>>,
                   <<"**Items Tracked:** ", ToString(Len(items))>>,
                   <<"**Estimated Tokens:** ", ToString(st.totalTokensEstimate)>>,
                   <<"**Needs Compaction:** ", IF st.needsCompaction THEN "[!] Yes" ELSE "[v] No">>>>
                     \o (IF st.lastCompactionAt # <<>> /\ st.lastCompactionAt[1] # 0
                         THEN <<<<"**Last Compaction:** ",
                                  ToString(minutesAgo(st.lastCompactionAt[1], t)), " minutes ago">>>>
                         ELSE <<>>)
                     \o <<<<>>, <<"---">>, <<>>, formatForPrompt(st, items)>>
    IN  join(lines, <<"\n">>)

\* formatRecent(tracker, limit)
formatRecent(items, limit, t) ==
    LET recent == getRecent(items, limit)
        lines == <<<<"## Recently Viewed">>, <<>>>>
                     \o [i \in 1 .. Len(recent) |->
                            <<"- **", recent[i].type, "**: ">> \o recent[i].path
                                \o <<" _(", ToString(minutesAgo(recent[i].viewedAt, t)), "m ago)_">>]
    IN  IF recent = <<>> THEN <<"No items viewed yet.">> ELSE join(lines, <<"\n">>)

\* formatImportant(tracker, limit)
formatImportant(items, limit) ==
    LET sorted == getByImportance(items)
        top == SubSeq(sorted, 1, Min(limit, Len(sorted)))
        lines == <<<<"## High Importance Items">>, <<>>>>
                     \o [i \in 1 .. Len(top) |->
                            <<"- [", ToString(percent(top[i].importance)), "%] **", top[i].type,
                              "**: ">> \o top[i].path]
    IN  IF top = <<>> THEN <<"No items tracked yet.">> ELSE join(lines, <<"\n">>)

\* str.includes(piece), both lowered
includes(str, piece) ==
    LET lower(x) == [i \in 1 .. Len(x) |-> toLowerCase(x[i])]
    IN  \E i \in 1 .. (Len(str) - Len(piece) + 1) :
            SubSeq(lower(str), i, i + Len(piece) - 1) = lower(piece)

\* searchMemories(query) of hooks whose store is st (<<>> for null)
searchMemories(st, query) ==
    LET found(e) == includes(e.content, query)
    IN  IF st = <<>> THEN <<>> ELSE SelectSeq(st[1].entries, found)

\* formatSearch(memory, query); the date of an entry is written as its day number
formatSearch(st, query) ==
    LET results == searchMemories(st, query)
        shown == SubSeq(results, 1, Min(10, Len(results)))
        lines == <<<<"## Memory Search: \"">> \o query \o <<"\"">>, <<>>,
                   <<"Found ", ToString(Len(results)), " results:">>, <<>>>>
                     \o [i \in 1 .. Len(shown) |->
                            <<"- [", shown[i].type, "] ">> \o shown[i].content
                                \o <<" _(", ToString(shown[i].timestamp \div DayTicks), ")_">>]
    IN  IF results = <<>> THEN <<"No memories found for: \"">> \o query \o <<"\"">>
        ELSE join(lines, <<"\n">>)

\* the actions the tool is called with; forget stands for every unknown action
NavActions == {"status", "seen", "recent", "important", "memory", "search", "forget"}

\* the optional arguments: none, empty strings and limit 0, a path that is
\* tracked and a query that is found, a path and a query that are not
NavArgs ==
    {[path |-> <<>>, query |-> <<>>, limit |-> <<>>],
     [path |-> << <<>> >>, query |-> << <<>> >>, limit |-> <<0>>],
     [path |-> << <<"a">> >>, query |-> << <<"old">> >>, limit |-> <<1>>],
     [path |-> << <<"b">> >>, query |-> << <<"none">> >>, limit |-> <<>>]}

\* execute(args) that hands a missing path or query on to the tracker and the memory
executeUnchecked(args, st, items, mem, t) ==
    LET limit == IF args.limit = <<>> \/ args.limit[1] = 0 THEN 10 ELSE args.limit[1]
        path == IF Present(args.path) THEN args.path[1] ELSE <<"undefined">>
        query == IF Present(args.query) THEN args.query[1] ELSE <<"undefined">>
    IN  CASE args.action = "status" -> formatStatus(st, items, t)
          [] args.action = "seen" ->
                IF hasSeen(items, path) THEN <<"[v] Already viewed: ">> \o path
                ELSE <<"[x] Not yet viewed: ">> \o path
          [] args.action = "recent" -> formatRecent(items, limit, t)
          [] args.action = "important" -> formatImportant(items, limit)
          [] args.action = "memory" -> getContextString(mem, 2000)
          [] args.action = "search" -> formatSearch(mem, query)
          [] OTHER -> <<"[x] Unknown action: ", args.action>>

\* execute(args) of the context-nav tool: the string returned, for the tracker
\* state st with items, the memory store mem and the time t
execute(args, st, items, mem, t) ==
    LET limit == IF args.limit = <<>> \/ args.limit[1] = 0 THEN 10 ELSE args.limit[1]
    IN  CASE args.action = "status" -> formatStatus(st, items, t)
          [] args.action = "seen" ->
                IF ~truthy(args.path) THEN <<"[x] Error: path is required for \"seen\" action">>
                ELSE IF hasSeen(items, args.path[1])
                     THEN <<"[v] Already viewed: ">> \o args.path[1]
                     ELSE <<"[x] Not yet viewed: ">> \o args.path[1]
          [] args.action = "recent" -> formatRecent(items, limit, t)
          [] args.action = "important" -> formatImportant(items, limit)
          [] args.action = "memory" -> getContextString(mem, 2000)
          [] args.action = "search" ->
                IF ~truthy(args.query) THEN <<"[x] Error: query is required for \"search\" action">>
                ELSE formatSearch(mem, args.query[1])
          [] OTHER -> <<"[x] Unknown action: ", args.action>>

\* execute(args) with getRecentMemories sorting store.entries itself
entriesAfterSortingInPlace(args, entries) ==
    IF args.action = "memory" THEN sortDescending(entries, "timestamp") ELSE entries

\* the tracker's items array after execute(args): Array.prototype.sort works in
\* place, and getRecent and getByImportance hand it the copy [...state.items];
\* hasSeen, getState and formatForPrompt only read
itemsAfter(args, items) == items

\* the store's entries array after execute(args): getRecentMemories sorts
\* entries.slice(), getImportantMemories and searchMemories sort or cut the
\* array that filter returned
entriesAfter(args, entries) == entries

\* a call of the context-nav tool: the returned string, and the arrays the
\* query functions have worked on
contextNav ==
    /\ mode = "session"
    /\ ipc = "done"
    /\ ncalls < MaxHandled
    /\ ncalls' = ncalls + 1
    /\ \E action \in NavActions, given \in NavArgs :
          LET args == [action |-> action, path |-> given.path, query |-> given.query,
                       limit |-> given.limit]
          IN  /\ call' = [Called("context-nav") EXCEPT
                             !.arg = args,
                             !.out = execute(args, state, Items, store, now)]
              /\ arrays' = [arrays EXCEPT ![state.items] = itemsAfter(args, Items)]
              /\ store' = IF store = <<>> THEN store
                          ELSE <<[store[1] EXCEPT !.entries = entriesAfter(args, @)]>>
    /\ UNCHANGED <<state, snapshot, snapTaken, removed, tracked, firsts>>
    /\ UNCHANGED <<lib, peer, file, dirty, ipc, ppc, payload, wrote, raised, now, mode, run>>

\* the files the plugin starts from: none, one that is not JSON, and a store of
\* two entries with the older one in front
PluginFiles ==
    {AbsentFile, NotJsonFile,
     [kind |-> "text",
      text |-> stringify([createMemoryStore(getProjectId, StartTime)
                             EXCEPT !.entries = <<OldEntry(1, StartTime - 1, Frac(5, 10)),
                                                  OldEntry(2, StartTime, Frac(9, 10))>>])]}

InitPlugin ==
    /\ mode = "session"
    /\ run = NoRun
    /\ peer = NoPeer
    /\ now = StartTime
    /\ FreshTracker
    /\ NoSession
    /\ file \in PluginFiles
    /\ lib = NoLib

NextPlugin ==
    \/ initialize
    \/ initializeLoaded
    \/ event
    \/ persistMkdir
    \/ persistWritten
    \/ persistRejected
    \/ Tick

\* the host sends session events
PluginSpec == InitPlugin /\ [][NextPlugin]_vars

NextTools ==
    \/ initialize
    \/ initializeLoaded
    \/ toolExecuteAfter
    \/ contextNav
    \/ Tick

\* the host reports tool executions and the agent calls the context-nav tool
ToolsSpec == InitPlugin /\ [][NextTools]_vars

----------------------------------------------------------------------------
\* The run command of the CLI (run.ts). A string is the sequence of its
\* characters; NaN is <<>> and a number n is <<n>>

\* the largest --max-iterations value given in digits
MaxIterations == 2

\* the check mark character of the success test, as one character
CheckMark == "check mark"

\* str.includes(piece)
stringIncludes(str, piece) ==
    \E i \in 1 .. (Len(str) - Len(piece) + 1) : SubSeq(str, i, i + Len(piece) - 1) = piece

\* the strings the success test looks for
TaskCompleted ==
    <<"T", "a", "s", "k", " ", "c", "o", "m", "p", "l", "e", "t", "e", "d", " ", "s", "u",
      "c", "c", "e", "s", "s", "f", "u", "l", "l", "y">>
AllTestsPassed ==
    <<"A", "l", "l", " ", "t", "e", "s", "t", "s", " ", "p", "a", "s", "s", "e", "d">>
ErrorWord ==
    <<"E", "r", "r", "o", "r">>
FailedWord ==
    <<"F", "a", "i", "l", "e", "d">>

\* the failure report the prompt asks for, with a reason
TaskFailed ==
    <<"T", "a", "s", "k", " ", "f", "a", "i", "l", "e", "d", ":", " ", "d", "i", "s", "k",
      " ", "f", "u", "l", "l">>

\* what the agent prints: the two reports the prompt asks for, the other success
\* marks alone and with an error, error output, and output with no mark at all
Outputs ==
    {TaskCompleted, TaskFailed, AllTestsPassed,
     <<CheckMark>> \o <<" ", "d", "o", "n", "e">>,
     <<CheckMark>> \o <<" ", "1", ",", " ">> \o ErrorWord,
     ErrorWord \o <<":", " ", "x">>,
     <<"T", "e", "s", "t", "s", " ">> \o FailedWord,
     <<"o", "k">>}

\* the values of the --max-iterations option: none, numbers in digits, a
\* negative number and a word
MaxIterationsOptions ==
    {<<>>, << <<"-", "1">> >>, << <<"a", "l", "l">> >>}
        \cup {<< <<ToString(n)>> >> : n \in 0 .. MaxIterations}

\* the value of a decimal digit, or 10 for any other character
digit(c) ==
    IF \E d \in 0 .. 9 : ToString(d) = c THEN CHOOSE d \in 0 .. 9 : ToString(d) = c ELSE 10

RECURSIVE digits(_, _)
\* the number of the leading decimal digits of str after the value so far
digits(str, value) ==
    IF str = <<>> \/ digit(Head(str)) = 10 THEN value
    ELSE digits(Tail(str), 10 * value + digit(Head(str)))

\* parseInt(str, 10) of a string without leading white space
parseInt(str) ==
    LET negative == str # <<>> /\ Head(str) = "-"
        rest == IF str # <<>> /\ Head(str) \in {"-", "+"} THEN Tail(str) ELSE str
    IN  IF rest = <<>> \/ digit(Head(rest)) = 10 THEN <<>>
        ELSE <<(IF negative THEN -1 ELSE 1) * digits(rest, 0)>>

\* options.maxIterations || '10'
maxIterationsOf(option) == parseInt(IF truthy(option) THEN option[1] ELSE <<"1", "0">>)

\* a loop test that lets one more iteration in
atMost(a, b) == b # <<>> /\ a <= b[1]

\* a < b of two numbers, false when b is NaN
lessThan(a, b) == b # <<>> /\ a < b[1]

\* the branches of the loop body that set success = true: a success mark, or else
\* neither 'Error' nor 'Failed' in the output
judgedSuccessful(stdout) ==
    \/ stringIncludes(stdout, TaskCompleted)
    \/ stringIncludes(stdout, AllTestsPassed)
    \/ stringIncludes(stdout, <<CheckMark>>) /\ ~stringIncludes(stdout, ErrorWord)
    \/ ~(stringIncludes(stdout, ErrorWord) \/ stringIncludes(stdout, FailedWord))

\* buildPrompt(task, iteration, runTests, runLint): the lines that are joined,
\* without the backquotes of the two context-nav lines
buildPrompt(task, iteration, runTests, runLint) ==
    <<<<"# Harness Task">>, <<>>,
      <<"**Task:** ">> \o task,
      <<"**Iteration:** ", ToString(iteration)>>,
      <<>>, <<"## Instructions">>, <<>>,
      <<"1. First, use context-nav memory to check for relevant past learnings">>,
      <<"2. Use context-nav seen <path> before reading files to avoid redundant reads">>,
      <<"3. Execute the task completely">>>>
        \o (IF runTests THEN <<<<"4. Run tests after making changes">>>> ELSE <<>>)
        \o (IF runLint
            THEN <<<<IF runTests THEN "5" ELSE "4", ". Run lint to check for issues">>>>
            ELSE <<>>)
        \o <<<<>>, <<"## Completion">>, <<>>,
             <<"When the task is complete, output: \"Task completed successfully\"">>,
             <<"If you encounter an unrecoverable error, output: \"Task failed: <reason>\"">>>>

\* the tasks given on the command line: none, the empty string, a task
Tasks == {<<>>, << <<>> >>, << <<"f", "i", "x">> >>}

\* oc-harness run is started: whether config.json exists, the task and the options
InitRun ==
    /\ mode = "run"
    /\ peer = NoPeer
    /\ now = StartTime
    /\ FreshTracker
    /\ NoSession
    /\ file = AbsentFile
    /\ lib = NoLib
    /\ \E initialized \in BOOLEAN, task \in Tasks, option \in MaxIterationsOptions,
          tests \in BOOLEAN, lint \in BOOLEAN :
          run = [pc |-> "start", initialized |-> initialized, task |-> task, option |-> option,
                 runTests |-> tests, runLint |-> lint, maxIterations |-> <<>>, iteration |-> 0,
                 success |-> FALSE, invoked |-> 0, prompt |-> <<>>, stdout |-> <<>>,
                 exit |-> <<>>]

\* a step of runCommand
RunStep(pc) ==
    /\ mode = "run"
    /\ run.pc = pc
    /\ UNCHANGED <<trackerVars, memoryVars, now, mode>>

\* runCommand up to the loop: the two checks that return, then the options
runCommand ==
    /\ RunStep("start")
    /\ IF ~run.initialized \/ ~truthy(run.task)
       THEN run' = [run EXCEPT !.pc = "done", !.exit = <<0>>]
       ELSE run' = [run EXCEPT !.pc = "loop", !.maxIterations = maxIterationsOf(run.option)]

\* the test of the while loop: the next iteration up to `await execa(...)`, or
\* the code after the loop, process.exit(1) without success and return with it
runIterate ==
    /\ RunStep("loop")
    /\ IF lessThan(run.iteration, run.maxIterations) /\ ~run.success
       THEN run' = [run EXCEPT !.pc = "agent",
                               !.iteration = run.iteration + 1,
                               !.invoked = run.invoked + 1,
                               !.prompt = buildPrompt(run.task[1], run.iteration + 1,
                                                      run.runTests, run.runLint)]
       ELSE run' = [run EXCEPT !.pc = "done",
                               !.exit = IF run.success THEN <<0>> ELSE <<1>>]

\* execa resolves with the agent's output: the success test
agentResolved ==
    /\ RunStep("agent")
    /\ \E stdout \in Outputs :
          run' = [run EXCEPT !.pc = "loop", !.stdout = stdout,
                             !.success = judgedSuccessful(stdout)]

\* execa rejects (exit code, timeout after 5 minutes, no such program): the catch
\* block exits at the last iteration
agentRejected ==
    /\ RunStep("agent")
    /\ IF run.iteration >= run.maxIterations[1]
       THEN run' = [run EXCEPT !.pc = "done", !.exit = <<1>>, !.stdout = <<>>]
       ELSE run' = [run EXCEPT !.pc = "loop", !.stdout = <<>>]

NextRun ==
    \/ runCommand
    \/ runIterate
    \/ agentResolved
    \/ agentRejected

\* every await of runCommand settles: execa has a timeout
RunSpec == InitRun /\ [][NextRun]_vars /\ WF_vars(NextRun)

----------------------------------------------------------------------------
\* Vocabulary of the properties

TrackOps == {"trackFile", "trackSymbol", "trackSearch", "trackCommand"}

\* a tracker call has just been made by this step
Calls(ops) == ncalls' # ncalls /\ call'.op \in ops

\* totalTokensEstimate / maxTokens >= compactionThreshold (0.8 = 8/10)
RatioReached == state.totalTokensEstimate * 10 >= 8 * maxTokens

\* the positions of items whose path is path
Holding(items, path) == {i \in 1 .. Len(items) : items[i].path = path}

RECURSIVE Surviving(_, _)
\* items without those whose importance is strictly below threshold, order kept
Surviving(items, threshold) ==
    IF items = <<>> THEN <<>>
    ELSE IF Head(items).importance < threshold
         THEN Surviving(Tail(items), threshold)
         ELSE <<Head(items)>> \o Surviving(Tail(items), threshold)

RECURSIVE Dropped(_, _)
\* the items whose importance is strictly below threshold, order kept
Dropped(items, threshold) ==
    IF items = <<>> THEN <<>>
    ELSE IF Head(items).importance < threshold
         THEN <<Head(items)>> \o Dropped(Tail(items), threshold)
         ELSE Dropped(Tail(items), threshold)

----------------------------------------------------------------------------
\* C1: in every reachable state no two items have the same path, and there
\* are never more items than distinct keys that were tracked.
C1_OneItemPerPath ==
    /\ \A i, j \in 1 .. Len(Items) : i # j => Items[i].path # Items[j].path
    /\ Len(Items) <= Cardinality(tracked)

\* a key was tracked again while another item is in the list
C1_Witness == call.op \in TrackOps /\ call.existed /\ Len(Items) >= 2

\* C2: a track* call of a key that is already in the list leaves
\* totalTokensEstimate and the number of items unchanged, sets that item's
\* importance to min(1, importance + 0.1) whatever token cost is supplied, and
\* changes no other item.
C2_RetrackMerges ==
    [][(Calls(TrackOps) /\ Holding(Items, call'.path) # {}) =>
          /\ state'.totalTokensEstimate = state.totalTokensEstimate
          /\ Len(Items') = Len(Items)
          /\ \A i \in 1 .. Len(Items) :
                IF i \in Holding(Items, call'.path)
                THEN Items'[i].importance = Min(Scale, Items[i].importance + Frac(1, 10))
                ELSE Items'[i] = Items[i]]_vars

\* an existing key was tracked again with a cost that alone reaches the threshold
C2_Witness ==
    /\ call.op \in TrackOps /\ call.existed /\ call.tokens = 80000
    /\ state.totalTokensEstimate < 80000

\* C3 as stated: after every mutating call needsCompaction is true iff
\* totalTokensEstimate / maxTokens >= compactionThreshold.
C3_FlagIsRatio ==
    call.op \in TrackOps \cup {"applyDecay", "prune", "markCompacted", "reset"} =>
        (state.needsCompaction <=> RatioReached)

\* C3 amended: after every track* and prune call needsCompaction is true iff
\* the ratio is at or above the threshold; markCompacted and reset set it to
\* false without looking at the ratio.
C3_FlagAfterCall ==
    [][/\ Calls(TrackOps \cup {"prune"}) => (state'.needsCompaction <=> RatioReached')
       /\ Calls({"markCompacted", "reset"}) => ~state'.needsCompaction]_vars

\* markCompacted was called with the ratio at the threshold, so the flag is
\* false while the ratio says true
C3_Witness == call.op = "markCompacted" /\ RatioReached /\ ~state.needsCompaction

\* C4: after prune, totalTokensEstimate is the sum of the default per-kind
\* estimates of the items that survive the prune.
C4_PruneTotalOfSurvivors ==
    call.op = "prune" => state.totalTokensEstimate = SumEstimates(Items)

\* C5: prune(threshold) removes exactly the items whose importance is strictly
\* below threshold, returns exactly those, and keeps the others in their
\* order with all fields unchanged.
C5_PruneRemovesBelow ==
    [][Calls({"prune"}) =>
          /\ Items' = Surviving(Items, call'.threshold)
          /\ removed' = Dropped(Items, call'.threshold)]_vars

\* a prune removed an item and kept one whose importance equals the threshold
C5_Witness ==
    /\ call.op = "prune"
    /\ removed # <<>>
    /\ \E i \in 1 .. Len(Items) : Items[i].importance = call.threshold

\* C6: markCompacted sets needsCompaction to false and lastCompactionAt to the
\* current time and changes neither the items nor totalTokensEstimate.
C6_MarkCompactedFrame ==
    [][Calls({"markCompacted"}) =>
          /\ ~state'.needsCompaction
          /\ state'.lastCompactionAt = <<now>>
          /\ state'.items = state.items
          /\ Items' = Items
          /\ state'.totalTokensEstimate = state.totalTokensEstimate]_vars

\* markCompacted was called on a tracker that holds items and is over the threshold
C6_Witness == call.op = "markCompacted" /\ Items # <<>> /\ RatioReached

\* C7: a markCompacted that directly follows a markCompacted changes nothing
\* but lastCompactionAt, so two calls in a row give the state one call gives.
C7_MarkCompactedTwice ==
    [][(Calls({"markCompacted"}) /\ call.op = "markCompacted") =>
          /\ state' = [state EXCEPT !.lastCompactionAt = state'.lastCompactionAt]
          /\ arrays' = arrays]_vars

\* two markCompacted calls in a row at different times, with tokens counted
C7_Witness ==
    /\ call.op = "markCompacted" /\ call.again
    /\ state.lastCompactionAt = <<StartTime + 1>>
    /\ state.totalTokensEstimate > 0

\* C8: what getState returned still holds the items, totalTokensEstimate and
\* needsCompaction it held when it was returned, whatever was called since.
C8_SnapshotImmutable ==
    \A i \in DOMAIN snapshot :
        /\ arrays[snapshot[i].items] = snapTaken[i].items
        /\ snapshot[i].totalTokensEstimate = snapTaken[i].totalTokensEstimate
        /\ snapshot[i].needsCompaction = snapTaken[i].needsCompaction

\* 0.8, the importance above which an entry is exempt from retention
Exempt(e) == e.importance * 10 > 8 * Scale

RECURSIVE KeptByAge(_, _, _)
\* the entries whose age at time t is at most days, or that are exempt, order kept
KeptByAge(entries, days, t) ==
    IF entries = <<>> THEN <<>>
    ELSE IF t - Head(entries).timestamp <= days * DayTicks \/ Exempt(Head(entries))
         THEN <<Head(entries)>> \o KeptByAge(Tail(entries), days, t)
         ELSE KeptByAge(Tail(entries), days, t)

\* C9: pruneOld(store, maxAgeDays) keeps an entry iff its age is at most
\* maxAgeDays (an entry exactly at the cutoff included) or its importance is
\* greater than 0.8, and keeps the kept entries in their order.
C9_PruneOldKeepsUpToCutoff ==
    lib.fn = "pruneOld" =>
        lib.out[1].entries = KeptByAge(lib.store[1].entries, lib.days, lib.at)

\* the retention rule for the entries `before` and `after` a prune at time t:
\* an exempt entry stays; an entry that is not exempt and older than days goes
Retention(before, after, days, t) ==
    \A e \in Range(before) :
        /\ Exempt(e) => e \in Range(after)
        /\ (~Exempt(e) /\ t - e.timestamp > days * DayTicks) => e \notin Range(after)

\* C10: whatever the age and maxAgeDays, pruneOld retains an entry whose
\* importance is greater than 0.8 and removes one whose importance is at most
\* 0.8 and whose age is strictly greater than maxAgeDays; so does the prune
\* that initialize applies with 30 days to the store it loads.
C10_ExemptAboveEightTenths ==
    /\ lib.fn = "pruneOld" =>
          Retention(lib.store[1].entries, lib.out[1].entries, lib.days, lib.at)
    /\ (mode = "session" /\ ipc = "done" /\ file.kind = "text" /\ file.text[1].json = "store") =>
          Retention(file.text[1].entries, store[1].entries, pruneDays, store[1].lastUpdated)

\* pruneOld was given an old entry of importance 0.81, which it kept, and an
\* equally old one of importance exactly 0.8, which it removed
C10_Witness ==
    /\ lib.fn = "pruneOld"
    /\ \E e \in Range(lib.store[1].entries) :
          /\ e.importance = Frac(81, 100)
          /\ lib.at - e.timestamp > lib.days * DayTicks
          /\ e \in Range(lib.out[1].entries)
    /\ \E e \in Range(lib.store[1].entries) :
          /\ e.importance = Frac(8, 10)
          /\ lib.at - e.timestamp > lib.days * DayTicks
          /\ e \notin Range(lib.out[1].entries)

\* the session's entries of a kind other than summary, in store order
ToCompress(entries, session) ==
    LET counted(e) == e.sessionId = session /\ e.type # "summary"
    IN  SelectSeq(entries, counted)

\* the session's entries of one kind, in store order
OfKind(entries, session, type) ==
    LET wanted(e) == e.sessionId = session /\ e.type = type
    IN  SelectSeq(entries, wanted)

\* C11: compressSession(store, sessionId) returns the store as it is (same
\* entries in the same order, same lastUpdated) whenever the session has fewer
\* than 10 entries of a kind other than summary; summary entries do not count.
C11_FewerThanTenUnchanged ==
    (lib.fn = "compressSession" /\ Len(ToCompress(lib.store[1].entries, lib.arg[1])) < 10) =>
        /\ lib.out[1].entries = lib.store[1].entries
        /\ lib.out[1].lastUpdated = lib.store[1].lastUpdated
        /\ lib.out = lib.store

\* compressSession was called later than the store's lastUpdated for a session of
\* nine entries to compress and a summary, ten in all, and returned the store
C11_Witness ==
    /\ lib.fn = "compressSession"
    /\ Len(ToCompress(lib.store[1].entries, lib.arg[1])) = 9
    /\ Len(OfKind(lib.store[1].entries, lib.arg[1], "summary")) >= 1
    /\ lib.at > lib.store[1].lastUpdated
    /\ lib.out = lib.store

\* compressSession has replaced the session's entries: it had 10 or more to compress
Compressed ==
    /\ lib.fn = "compressSession"
    /\ Len(ToCompress(lib.store[1].entries, lib.arg[1])) >= 10

\* the last entry of the store compressSession returned
Summary == lib.out[1].entries[Len(lib.out[1].entries)]

\* C12: with at least 10 non-summary entries of the session, the store returned
\* by compressSession holds exactly one entry with that sessionId: a new entry of
\* kind summary and importance 0.9, placed last; none of the session's previous
\* entries of any kind remains, an earlier summary included.
C12_OnlyTheNewSummary ==
    Compressed =>
        LET before == lib.store[1].entries
            after == lib.out[1].entries
        IN  /\ after # <<>>
            /\ Summary.sessionId = lib.arg[1]
            /\ Summary.type = "summary"
            /\ Summary.importance * 10 = 9 * Scale
            /\ \A i \in 1 .. Len(after) - 1 : after[i].sessionId # lib.arg[1]
            /\ \A e \in Range(before) :
                  e.sessionId = lib.arg[1] => e \notin Range(after) /\ e.id # Summary.id

\* a session of ten entries to compress and one earlier summary was compressed in
\* a store that also holds entries of another session
C12_Witness ==
    /\ Compressed
    /\ Len(OfKind(lib.store[1].entries, lib.arg[1], "summary")) >= 1
    /\ Len(lib.out[1].entries) >= 2
    /\ Summary.type = "summary"

\* the string holds the piece in one stretch
Contains(str, piece) ==
    \E i \in 1 .. Len(str) - Len(piece) + 1 : SubSeq(str, i, i + Len(piece) - 1) = piece

RECURSIVE Listed(_)
\* the contents of the entries, in order, with "; " between them
Listed(entries) ==
    IF Len(entries) = 1 THEN entries[1].content
    ELSE entries[1].content \o <<"; ">> \o Listed(Tail(entries))

\* the summary has the section of this label exactly when the session has an
\* entry of that kind, and the section lists them all in store order
Section(label, type) ==
    LET listed == OfKind(lib.store[1].entries, lib.arg[1], type)
    IN  /\ (label \in Range(Summary.content)) <=> (listed # <<>>)
        /\ listed # <<>> => Contains(Summary.content, <<label>> \o Listed(listed))

\* C13: the content of the summary that compressSession creates has a section
\* "Decisions: " listing the contents of all the session's decision entries in
\* store order joined by "; " and a section "Findings: " listing its finding
\* entries the same way; a section is there exactly when the session has an
\* entry of that kind; the content of no other entry is in the summary.
C13_SummarySections ==
    Compressed =>
        /\ Section("Decisions: ", "decision")
        /\ Section("Findings: ", "finding")
        /\ \A e \in Range(lib.store[1].entries) :
              (e.sessionId # lib.arg[1] \/ e.type \notin {"decision", "finding"}) =>
                  ~Contains(Summary.content, e.content)

\* a session with two decisions, two findings and an error was compressed
C13_Witness ==
    /\ Compressed
    /\ Len(OfKind(lib.store[1].entries, lib.arg[1], "decision")) >= 2
    /\ Len(OfKind(lib.store[1].entries, lib.arg[1], "finding")) >= 2
    /\ Len(OfKind(lib.store[1].entries, lib.arg[1], "error")) >= 1
    /\ Contains(Summary.content, <<"; ">>)

\* ceil(n / 4)
CeilQuarter(n) == CHOOSE c \in 0 .. n : 4 * c >= n /\ 4 * (c - 1) < n

\* the bullet of an entry: "- [kind] content"
Bullet(e) == <<"- [", e.type, "] ">> \o e.content

\* the number of characters of a string given in pieces
Characters(str) == LET RECURSIVE sum(_)
                       sum(i) == IF i = 0 THEN 0 ELSE Len(str[i]) + sum(i - 1)
                   IN  sum(Len(str))

\* 10 + the sum of ceil(length of the bullet / 4) over the first k entries
PrefixTokens(entries, k) ==
    LET RECURSIVE sum(_)
        sum(i) == IF i = 0 THEN 10 ELSE CeilQuarter(Characters(Bullet(entries[i]))) + sum(i - 1)
    IN  sum(k)

\* the header line followed by the bullets of the first k entries, one per line
HeaderAndBullets(entries, k) ==
    LET RECURSIVE lines(_)
        lines(i) == IF i = 0 THEN <<"## Relevant Memories">>
                    ELSE lines(i - 1) \o <<"\n">> \o Bullet(entries[i])
    IN  lines(k)

\* C14: formatForContext(entries, maxTokens) gives the header line followed by
\* the bullets of the longest prefix of entries whose 10 + sum of ceil(length of
\* "- [kind] content" / 4) is at most maxTokens: it stops at the first entry that
\* would overflow, and gives only the header when the first entry overflows.
C14_LongestPrefixWithinBudget ==
    lib.fn = "formatForContext" =>
        LET entries == lib.arg[1]
            fitting == {k \in 1 .. Len(entries) : PrefixTokens(entries, k) <= lib.arg[2]}
            longest == IF fitting = {} THEN 0
                       ELSE CHOOSE k \in fitting : \A j \in fitting : j <= k
        IN  lib.out = HeaderAndBullets(entries, longest)

\* the first entry fits, the second overflows and the third, which would still
\* fit, is left out with it
C14_Witness ==
    /\ lib.fn = "formatForContext"
    /\ Len(lib.arg[1]) = 3
    /\ PrefixTokens(lib.arg[1], 1) <= lib.arg[2]
    /\ PrefixTokens(lib.arg[1], 2) > lib.arg[2]
    /\ PrefixTokens(lib.arg[1], 1) + CeilQuarter(Characters(Bullet(lib.arg[1][3]))) <= lib.arg[2]
    /\ lib.out = HeaderAndBullets(lib.arg[1], 1)

\* C15: addEntry(store, entry) returns a new store whose entries are the input
\* store's entries in the same order followed by entry as the last element, with
\* version and projectId as they were; the store given (its entries and its
\* lastUpdated) is not modified.
C15_AddEntryAppends ==
    lib.fn = "addEntry" =>
        /\ lib.out[1].entries = lib.store[1].entries \o lib.arg
        /\ lib.out[1].version = lib.store[1].version
        /\ lib.out[1].projectId = lib.store[1].projectId
        /\ lib.after[1].entries = lib.store[1].entries
        /\ lib.after[1].lastUpdated = lib.store[1].lastUpdated

\* an entry was added to a store of two entries one tick after its lastUpdated:
\* the store returned has three entries and the new time, the store given has not
C15_Witness ==
    /\ lib.fn = "addEntry"
    /\ Len(lib.store[1].entries) = 2
    /\ Len(lib.out[1].entries) = 3
    /\ lib.out[1].lastUpdated > lib.store[1].lastUpdated
    /\ lib.after = lib.store

\* what makes the load of initialize fail: a file that cannot be read, that is
\* not JSON, or whose JSON is not of the shape of a store
LoadFails(f) ==
    \/ f.kind = "unreadable"
    \/ f.kind = "text" /\ f.text[1].json \in {"invalid", "object"}

\* C17: initialize never throws to its caller, whatever the durable file is;
\* when loading fails it leaves a freshly created empty store (no entries,
\* version 1, projectId derived from the project path); after initialize has
\* returned the store is never null.
C17_InitializeNeverThrows ==
    /\ ~raised
    /\ ipc = "done" => store # <<>>
    /\ (mode = "session" /\ ipc = "done" /\ LoadFails(file)) =>
          /\ store[1].entries = <<>>
          /\ store[1].version = <<1>>
          /\ store[1].projectId = <<"p", "-", "a">>

\* initialize has returned on a file holding the JSON document {}
C17_Witness ==
    /\ ipc = "done"
    /\ file = EmptyObjectFile
    /\ store # <<>>
    /\ store[1].entries = <<>>

\* C18: when the durable file parses as JSON and its version field is missing
\* or is not 1, initialize does not throw and falls back to an empty store:
\* none of that file's entries is in the session's store.
C18_UnknownVersionFallsBack ==
    (mode = "session" /\ ipc = "done" /\ file.kind = "text"
        /\ file.text[1].json = "store" /\ file.text[1].version # <<1>>) =>
        /\ ~raised
        /\ \A e \in Range(file.text[1].entries) : e \notin Range(store[1].entries)

AddOps == {"addDecision", "addFinding", "addError", "addPreference", "addContext"}

\* the importance asked for, brought into [0,1]
Clamped(importance) ==
    IF importance < 0 THEN 0 ELSE IF importance > Scale THEN Scale ELSE importance

\* the entries of the session's store that this session has added
OwnEntries ==
    IF store = <<>> THEN {} ELSE {e \in Range(store[1].entries) : e.sessionId = "s1"}

\* C16: every entry built by createEntry or by addDecision, addFinding,
\* addError, addPreference and addContext has an importance in [0,1]: a
\* requested importance below 0 becomes 0, one above 1 becomes 1 and one inside
\* the range is kept; so after any sequence of add* calls every entry added in
\* this session has its importance in [0,1].
C16_ImportanceClamped ==
    /\ [](/\ lib.fn = "createEntry" => lib.out[1].importance = Clamped(lib.arg[2])
          /\ \A e \in OwnEntries : 0 <= e.importance /\ e.importance <= Scale)
    /\ [][(Calls(AddOps) /\ store # <<>>) =>
             LET added == store'[1].entries[Len(store'[1].entries)]
             IN  /\ Len(store'[1].entries) = Len(store[1].entries) + 1
                 /\ added.importance = Clamped(call'.importance)]_vars

\* the session has added an entry asked for with importance -0.5, held with 0,
\* and then one asked for with 1.5, held with 1
C16_Witness ==
    /\ call.op \in AddOps
    /\ call.importance = Frac(3, 2)
    /\ \E e \in OwnEntries : e.importance = Scale
    /\ \E e \in OwnEntries : e.importance = 0

\* this step ends a persist whose mkdir or writeFile has failed
WriteFails == ppc # "idle" /\ ppc' = "idle" /\ wrote' = "failed"

\* C19: when the file write inside persist fails, persist returns normally, the
\* in-memory store is unchanged and dirty stays true; so the next persist call
\* attempts the write again: it hands the whole in-memory store to writeFile,
\* and if that write succeeds the file holds that text, which is the in-memory
\* store unless an add* call was made while the write was under way.
C19_FailedWriteKeepsDirty ==
    /\ [][WriteFails => (~raised' /\ store' = store /\ dirty /\ dirty')]_vars
    /\ [][(Calls({"persist"}) /\ wrote = "failed") => ppc' = "mkdir"]_vars
    /\ [][(ppc = "mkdir" /\ ppc' = "writing") => payload' = stringify(store[1])]_vars
    /\ [][(ppc = "writing" /\ wrote' = "ok") =>
             /\ file'.text = payload
             /\ payload = stringify(store[1]) => parse(file'.text) = store'[1]]_vars

\* a write has failed, the store with its added entry is still there and not in
\* the file, and the next persist call has started on the write again
C19_Witness ==
    /\ wrote = "failed"
    /\ ppc = "mkdir"
    /\ dirty
    /\ OwnEntries # {}
    /\ file.text # stringify(store[1])

\* C20: persist writes the file only when a mutation has occurred since the
\* last successful write: a persist issued after a successful persist with no
\* add* call in between performs no file write, and a persist before
\* initialize has completed performs no write.
C20_NoRedundantWrite ==
    [][(Calls({"persist"}) /\ (wrote = "ok" \/ ipc # "done")) =>
          (ppc' = "idle" /\ file' = file /\ payload' = payload)]_vars

\* persist was called right after a persist that wrote the file, and has
\* returned without starting a write
C20_Witness ==
    /\ call.op = "persist"
    /\ call.again
    /\ wrote = "ok"
    /\ ppc = "idle"
    /\ ~dirty
    /\ file.text = stringify(store[1])

\* C21: for every interleaving of add* calls with persist, an add* issued while
\* a persist is suspended on its file I/O included, whenever no persist is in
\* flight and dirty is false the entries of the durable file are the entries
\* of the in-memory store: no added entry is left unwritten with dirty = false.
C21_CleanMeansWritten ==
    (mode = "session" /\ ppc = "idle" /\ store # <<>> /\ ~dirty) =>
        /\ file.kind = "text"
        /\ ParsesToStore(file.text)
        /\ parse(file.text).entries = store[1].entries

\* the ids of the entries
Ids(entries) == {e.id : e \in Range(entries)}

\* the entries that at time t are younger than 30 days or have importance above 0.8
YoungOrExempt(entries, t) ==
    {e \in Range(entries) : t - e.timestamp < 30 * DayTicks \/ Exempt(e)}

\* the file holds the store that the session has persisted with success
Persisted ==
    /\ wrote = "ok"
    /\ store # <<>>
    /\ file.kind = "text"
    /\ file.text = stringify(store[1])

C23_LastWriterWins ==
    /\ [](~raised /\ ~peer.raised)
    /\ [][(ppc = "writing" /\ ppc' = "idle" /\ wrote' = "ok") =>
             file'.text = payload]_vars
    /\ [][(peer.ppc = "writing" /\ peer'.ppc = "idle" /\ peer'.wrote = "ok") =>
             file'.text = peer.payload]_vars

\* both sessions have added an entry and persisted with success; the write of
\* the second session removed the first session's entry from the file, which
\* now holds the second session's store, and no error was raised
C23_Witness ==
    /\ wrote = "ok"
    /\ peer.wrote = "ok"
    /\ ~raised /\ ~peer.raised
    /\ peer.store # <<>>
    /\ file.text = stringify(peer.store[1])
    /\ \E e \in Range(peer.store[1].entries) : e.sessionId = "s2"
    /\ \E e \in OwnEntries : e \in peer.overwrote /\ e \notin FileEntries(file)

----------------------------------------------------------------------------
\* C24: the plugin's event handler calls persist on every session.idle and every
\* session.end event and on no other event type: a session.start or unknown event
\* starts no write and changes neither the file nor the store; a write starts
\* only in the handling of a session.idle or session.end event, and the file
\* changes only in such a write; after a successful write the file holds the
\* in-memory store.
C24_PersistOnIdleAndEnd ==
    /\ [][Calls({"event"}) =>
            IF call'.arg \in {<<"session.idle">>, <<"session.end">>}
            THEN ppc' = (IF store # <<>> /\ dirty THEN "mkdir" ELSE "idle")
            ELSE ppc' = "idle" /\ UNCHANGED <<file, store, dirty, payload, wrote>>]_vars
    /\ [][(ppc = "idle" /\ ppc' # "idle") =>
            (Calls({"event"}) /\ call'.arg \in {<<"session.idle">>, <<"session.end">>})]_vars
    /\ [][file' # file => ppc = "writing"]_vars
    /\ [][(ppc = "writing" /\ ppc' = "idle" /\ wrote' = "ok") =>
            /\ file'.kind = "text" /\ ParsesToStore(file'.text)
            /\ parse(file'.text) = store'[1]
            /\ ~dirty']_vars

\* the write of a session.idle or session.end event has succeeded, and a
\* session.start event handled after it has left the file as the write left it
C24_Witness ==
    /\ mode = "session" /\ ipc = "done" /\ ppc = "idle"
    /\ call.op = "event" /\ call.arg = <<"session.start">>
    /\ wrote = "ok"
    /\ file.kind = "text" /\ file.text = stringify(store[1])

----------------------------------------------------------------------------
\* the paths of the items
Paths(items) == {items[i].path : i \in 1 .. Len(items)}

\* the number of newline characters of a string
Newlines(str) == Cardinality({i \in 1 .. Len(str) : str[i] = "\n"})

\* the argument is given: the key is there and its string is not empty
Given(arg) == arg # <<>> /\ arg # << <<>> >>

\* the one tracking call the claim gives for a record, or none
Mapped(tool, args, result) ==
    IF tool = "read" /\ Given(args.filePath)
    THEN <<[op |-> "trackFile", arg |-> args.filePath[1], n |-> CeilQuarter(Len(result))]>>
    ELSE IF tool \in {"grep", "search"} /\ Given(args.query)
    THEN <<[op |-> "trackSearch", arg |-> args.query[1], n |-> Newlines(result)]>>
    ELSE IF tool \in {"bash", "shell"} /\ Given(args.command)
    THEN <<[op |-> "trackCommand", arg |-> args.command[1], n |-> CeilQuarter(Len(result))]>>
    ELSE <<>>

\* the key and the token cost of a tracking call
KeyOf(c) ==
    CASE c.op = "trackFile" -> c.arg
      [] c.op = "trackSearch" -> <<"s", "e", "a", "r", "c", "h", ":">> \o c.arg
      [] c.op = "trackCommand" -> <<"c", "m", "d", ":">> \o SubSeq(c.arg, 1, Min(50, Len(c.arg)))

CostOf(c) == IF c.op = "trackSearch" THEN 100 ELSE c.n

\* C25: the tool.execute.after handler makes at most one tracking call for a
\* record: trackFile(filePath, ceil(result length / 4)) for read with a filePath,
\* trackSearch(query, newlines of the result) for grep or search with a query,
\* trackCommand(command, ceil(result length / 4)) for bash or shell with a
\* command, and the call has its effect on the tracker (the key is in the list,
\* and a new key adds one item and its cost); any other tool name, or a record
\* without the argument, adds no item and leaves totalTokensEstimate unchanged.
C25_OneTrackingCall ==
    [][Calls({"tool.execute.after"}) =>
        LET made == call'.out
            before == Items
            after == arrays'[state'.items]
        IN  /\ Len(made) <= 1
            /\ made = Mapped(call'.arg.tool, call'.arg.args, call'.arg.result)
            /\ IF made = <<>>
               THEN /\ Len(after) = Len(before)
                    /\ Paths(after) = Paths(before)
                    /\ state'.totalTokensEstimate = state.totalTokensEstimate
               ELSE /\ KeyOf(made[1]) \in Paths(after)
                    /\ Paths(after) = Paths(before) \cup {KeyOf(made[1])}
                    /\ IF KeyOf(made[1]) \in Paths(before)
                       THEN /\ Len(after) = Len(before)
                            /\ state'.totalTokensEstimate = state.totalTokensEstimate
                       ELSE /\ Len(after) = Len(before) + 1
                            /\ state'.totalTokensEstimate =
                                   state.totalTokensEstimate + CostOf(made[1])
                    /\ made[1].op = "trackSearch" =>
                          \E i \in 1 .. Len(after) :
                              /\ after[i].path = KeyOf(made[1])
                              /\ after[i].summary = ToString(made[1].n) \o " results"]_vars

\* a read of a 5-character result has added the file at 2 tokens, and then a
\* record of another tool name, or one without its argument, was handled
C25_Witness ==
    /\ call.op = "tool.execute.after"
    /\ call.out = <<>>
    /\ call.arg.tool \in {"edit", "read"}
    /\ Paths(Items) = {<<"a">>}
    /\ state.totalTokensEstimate = 2

----------------------------------------------------------------------------
\* the positions of entries that are among the k most recent by timestamp; of
\* two entries with one timestamp the one earlier in the store counts as more
\* recent
MostRecent(entries, k) ==
    {i \in 1 .. Len(entries) :
        Cardinality({j \in 1 .. Len(entries) :
                        \/ entries[j].timestamp > entries[i].timestamp
                        \/ entries[j].timestamp = entries[i].timestamp /\ j < i}) < k}

\* the entries at positions of importance >= 0.7
Important(entries) == {i \in 1 .. Len(entries) : entries[i].importance >= Frac(7, 10)}

\* C27: the entry sequence that getContextString hands to formatForContext
\* contains each entry id at most once, contains exactly the store entries that
\* have importance >= 0.7 or are among the 20 most recent by timestamp, and lists
\* the importance >= 0.7 entries first in descending importance, followed by the
\* remaining recent entries in descending timestamp.
C27_ImportantThenRecent ==
    (mode = "library" /\ lib.fn = "getContextString") =>
        LET entries == lib.store[1].entries
            handed == lib.arg
            m == Cardinality(Important(handed))
        IN  /\ \A i, j \in 1 .. Len(handed) : i # j => handed[i].id # handed[j].id
            /\ Range(handed) =
                  {entries[i] : i \in Important(entries) \cup MostRecent(entries, 20)}
            /\ Important(handed) = 1 .. m
            /\ \A i, j \in 1 .. m : i < j => handed[i].importance >= handed[j].importance
            /\ \A i, j \in (m + 1) .. Len(handed) :
                  i < j => handed[i].timestamp >= handed[j].timestamp

\* a store of more than 20 entries: an old entry is handed over for its
\* importance, a recent one of low importance follows it, and an old entry of
\* low importance is left out
C27_Witness ==
    /\ mode = "library" /\ lib.fn = "getContextString"
    /\ LET entries == lib.store[1].entries
           handed == lib.arg
       IN  /\ Len(entries) > 20
           /\ Len(handed) < Len(entries)
           /\ Important(entries) \ MostRecent(entries, 20) # {}
           /\ MostRecent(entries, 20) \ Important(entries) # {}
           /\ Important(entries) \cap MostRecent(entries, 20) # {}

----------------------------------------------------------------------------
\* the error string of a context-nav call that cannot be answered, or <<>>
NavError(args) ==
    IF args.action = "seen" /\ ~Given(args.path)
    THEN <<"[x] Error: path is required for \"seen\" action">>
    ELSE IF args.action = "search" /\ ~Given(args.query)
    THEN <<"[x] Error: query is required for \"search\" action">>
    ELSE IF args.action \notin {"status", "seen", "recent", "important", "memory", "search"}
    THEN <<"[x] Unknown action: ", args.action>>
    ELSE <<>>

\* C26: in the query layer a seen action without a path, a search action
\* without a query and an unknown action each return an error string instead
\* of throwing, and leave the tracker state and the memory store unchanged.
C26_NavErrors ==
    [][Calls({"context-nav"}) =>
        (NavError(call'.arg) # <<>> =>
            /\ call'.out = NavError(call'.arg)
            /\ ~raised'
            /\ UNCHANGED <<state, arrays, store, dirty, file>>)]_vars

\* after a file was tracked and with a loaded store, a seen call without a path
\* returned its error string
C26_Witness ==
    /\ call.op = "context-nav"
    /\ call.arg.action = "seen" /\ call.arg.path = <<>>
    /\ call.out = <<"[x] Error: path is required for \"seen\" action">>
    /\ Len(Items) > 0
    /\ store # <<>> /\ store[1].entries # <<>>

----------------------------------------------------------------------------
\* C28: after every applyDecay call needsCompaction equals
\* (totalTokensEstimate / maxTokens >= compactionThreshold); when markCompacted
\* was called with the ratio at or above the threshold, the next applyDecay sets
\* needsCompaction back to true.
C28_DecayRecomputes ==
    call.op = "applyDecay" => (state.needsCompaction <=> RatioReached)

----------------------------------------------------------------------------
RECURSIVE SumCosts(_)
\* the sum of the token costs of a set of first observations
SumCosts(costs) ==
    IF costs = {} THEN 0
    ELSE LET c == CHOOSE x \in costs : TRUE
         IN  c.tokens + SumCosts(costs \ {c})

\* the key of a search
SearchKey(path) == Len(path) >= 7 /\ SubSeq(path, 1, 7) = <<"s", "e", "a", "r", "c", "h", ":">>

\* C29: as long as no prune or reset was called on a tracker, whatever track*,
\* applyDecay and markCompacted calls were made, the keys of the items are the
\* keys tracked, and totalTokensEstimate is the sum over them of the token cost
\* of the key's first observation: the value the caller supplied for a file, a
\* symbol and a command, and 100 for a search whatever the resultCount.
C29_TotalOfFirstCosts ==
    (mode = "tracker" /\ firsts.whole) =>
        /\ Paths(Items) = {c.path : c \in firsts.costs}
        /\ \A c, d \in firsts.costs : c.path = d.path => c = d
        /\ state.totalTokensEstimate = SumCosts(firsts.costs)
        /\ \A c \in firsts.costs : SearchKey(c.path) => c.tokens = 100
        /\ (call.op \in {"trackFile", "trackSymbol", "trackCommand"} /\ ~call.existed) =>
              [path |-> call.path, tokens |-> call.tokens] \in firsts.costs

\* a file that was first tracked at one cost is tracked again at another, after
\* a search was tracked and markCompacted was called
C29_Witness ==
    /\ mode = "tracker" /\ firsts.whole
    /\ call.op = "trackFile" /\ call.existed
    /\ \E c \in firsts.costs : c.path = call.path /\ c.tokens # call.tokens
    /\ \E c \in firsts.costs : SearchKey(c.path)
    /\ state.lastCompactionAt # <<>>

----------------------------------------------------------------------------
\* the base importance of a kind of item
Base(type) ==
    CASE type = "file" -> Frac(7, 10)
      [] type = "function" -> Frac(8, 10)
      [] type = "search" -> Frac(5, 10)
      [] type = "command" -> Frac(6, 10)

\* the kind of item a track* call makes
KindOf(op) ==
    CASE op = "trackFile" -> "file"
      [] op = "trackSymbol" -> "function"
      [] op = "trackSearch" -> "search"
      [] op = "trackCommand" -> "command"

\* C30: with the decay rate 0.95, every item's importance is in [0,1] in every
\* state reached by track*, applyDecay, prune, markCompacted and reset calls, and
\* its product by any rate n/20 in [0,1] is in [0,1] as well; a newly added item
\* starts at the base importance of its kind (file 0.7, function 0.8, search
\* 0.5, command 0.6).
C30_ImportanceInUnitInterval ==
    mode = "tracker" =>
        /\ \A i \in 1 .. Len(Items) : Items[i].importance >= 0 /\ Items[i].importance <= Scale
        /\ \A i \in 1 .. Len(Items), n \in 0 .. decayDen :
              /\ Items[i].importance * n >= 0
              /\ Items[i].importance * n <= Scale * decayDen
        /\ (call.op \in TrackOps /\ ~call.existed) =>
              /\ Items # <<>>
              /\ Items[Len(Items)].path = call.path
              /\ Items[Len(Items)].type = KindOf(call.op)
              /\ Items[Len(Items)].importance = Base(KindOf(call.op))

\* a symbol tracked again and again has reached importance 1
C30_Witness ==
    /\ mode = "tracker"
    /\ call.op = "trackSymbol" /\ call.existed /\ call.again
    /\ \E i \in 1 .. Len(Items) : Items[i].path = call.path /\ Items[i].importance = Scale

----------------------------------------------------------------------------
\* C31: applyDecay replaces the importance of every item by importance times
\* the decay rate and changes nothing else: the items and their order, each
\* item's path, kind, viewedAt and summary, totalTokensEstimate and
\* lastCompactionAt are unchanged.
C31_DecayFrame ==
    [][Calls({"applyDecay"}) =>
        LET before == Items
            after == arrays'[state'.items]
        IN  /\ Len(after) = Len(before)
            /\ \A i \in 1 .. Len(before) :
                  /\ after[i].importance * decayDen = before[i].importance * decayNum
                  /\ after[i].path = before[i].path
                  /\ after[i].type = before[i].type
                  /\ after[i].viewedAt = before[i].viewedAt
                  /\ after[i].summary = before[i].summary
            /\ state'.totalTokensEstimate = state.totalTokensEstimate
            /\ state'.lastCompactionAt = state.lastCompactionAt]_vars

\* applyDecay was called on two or more items, one of them a file at its base
\* importance and one viewed before the clock moved
C31_Witness ==
    /\ mode = "tracker" /\ call.op = "applyDecay"
    /\ Len(Items) >= 2
    /\ \E i \in 1 .. Len(Items) : Items[i].viewedAt < now
    /\ \E i \in 1 .. Len(Items) : Items[i].importance * decayDen = Frac(7, 10) * decayNum
    /\ state.totalTokensEstimate > 0

----------------------------------------------------------------------------
\* the first 50 characters of a command
First50(command) == [i \in 1 .. Min(50, Len(command)) |-> command[i]]

\* the key of a command
CommandKey(command) == <<"c", "m", "d", ":">> \o First50(command)

\* C32: the key of a command item is "cmd:" followed by the first 50 characters
\* of the command; a trackCommand call whose command agrees on its first 50
\* characters with that of an item already in the list merges into that item
\* (importance + 0.1 up to 1, no token cost added, no item added), even when
\* the commands differ after character 50.
C32_CommandKey ==
    [][Calls({"trackCommand"}) =>
        LET key == CommandKey(call'.arg)
            held == Holding(Items, key)
            after == arrays'[state'.items]
        IN  /\ Holding(after, key) # {}
            /\ \A i \in 1 .. Len(after) :
                  after[i].type = "command" =>
                      \E command \in Commands : after[i].path = CommandKey(command)
            /\ IF held # {}
               THEN /\ Len(after) = Len(Items)
                    /\ state'.totalTokensEstimate = state.totalTokensEstimate
                    /\ \A i \in held :
                          after[i].importance = Min(Scale, Items[i].importance + Frac(1, 10))
               ELSE /\ Len(after) = Len(Items) + 1
                    /\ state'.totalTokensEstimate = state.totalTokensEstimate + call'.tokens]_vars

\* two trackCommand calls in a row, the second with a 51-character command,
\* have left one command item, raised by 0.1, at the cost of the first call
C32_Witness ==
    /\ mode = "tracker"
    /\ call.op = "trackCommand" /\ call.again /\ call.existed
    /\ Len(call.arg) = 51
    /\ Len(Items) = 1
    /\ Items[1].importance = Frac(7, 10)
    /\ Len(Items[1].path) = 54
    /\ call.tokens # state.totalTokensEstimate

----------------------------------------------------------------------------
\* the run command has ended
Ended == mode = "run" /\ run.pc = "done"

\* C33 as stated: the run command invokes the agent at most maxIterations times
\* and ends normally if and only if some iteration was judged successful, and
\* otherwise with a failure status after maxIterations iterations.
C33_EndsNormallyIffSuccess ==
    Ended =>
        /\ (run.exit = <<0>>) <=> run.success
        /\ run.exit = <<1>> =>
              (run.maxIterations # <<>> /\ run.invoked = run.maxIterations[1])

\* the harness is initialized, a task is given and the maxIterations option is
\* absent or a whole number that is not negative
Runnable ==
    /\ mode = "run"
    /\ run.initialized
    /\ Given(run.task)
    /\ maxIterationsOf(run.option) # <<>>
    /\ maxIterationsOf(run.option)[1] >= 0

\* C33 amended: when the harness is initialized, a task is given and
\* maxIterations is a whole number that is not negative, the run command invokes
\* the agent at most maxIterations times, makes no invocation after an iteration
\* was judged successful, and always ends: normally if and only if an iteration
\* was judged successful, and otherwise with a failure status after
\* maxIterations invocations, whether they returned output or threw.
C33_RunLoopEnds ==
    /\ [](Runnable =>
            /\ run.invoked <= maxIterationsOf(run.option)[1]
            /\ run.invoked = run.iteration
            /\ run.pc = "done" =>
                  /\ (run.exit = <<0>>) <=> run.success
                  /\ run.exit = <<1>> => run.invoked = maxIterationsOf(run.option)[1]
                  /\ run.exit \in {<<0>>, <<1>>})
    /\ [][(Runnable /\ run.success) => run'.invoked = run.invoked]_vars
    /\ (Runnable ~> (run.pc = "done"))

\* with maxIterations 2, the first invocation threw and the second returned
\* output with an error: the command has exited with a failure status
C33_Witness ==
    /\ Runnable /\ Ended
    /\ run.exit = <<1>>
    /\ run.invoked = 2
    /\ stringIncludes(run.stdout, ErrorWord)

----------------------------------------------------------------------------
\* C40: an iteration whose agent output is the failure report the prompt asks
\* for ("Task failed: <reason>") is not judged successful.
C40_FailureReportNotSuccess ==
    (mode = "run" /\ run.pc \in {"loop", "done"} /\ run.stdout = TaskFailed)
        => ~run.success

----------------------------------------------------------------------------
\* C34: while only track* calls and applyDecay act on the tracker, with token
\* costs that are not negative, totalTokensEstimate never decreases and the
\* number of items never decreases, so needsCompaction, once true, stays true.
C34_CompactionStays ==
    [][/\ state'.totalTokensEstimate >= state.totalTokensEstimate
       /\ Len(Items') >= Len(Items)
       /\ state.needsCompaction => state'.needsCompaction]_vars

\* the flag is up after a decay that followed the tracking of three or more
\* items, whose total is past the whole budget
C34_Witness ==
    /\ mode = "tracker" /\ call.op = "applyDecay"
    /\ state.needsCompaction
    /\ Len(Items) >= 3
    /\ state.totalTokensEstimate > maxTokens

----------------------------------------------------------------------------
\* C35: prune is idempotent: a second prune(t) called right after prune(t)
\* returns an empty list and leaves the items, totalTokensEstimate and
\* needsCompaction as the first call left them.
C35_PruneIdempotent ==
    [][(/\ call.op = "prune"
        /\ Calls({"prune"})
        /\ call'.threshold = call.threshold)
       => /\ removed' = <<>>
          /\ Items' = Items
          /\ state'.totalTokensEstimate = state.totalTokensEstimate
          /\ state'.needsCompaction = state.needsCompaction]_vars

----------------------------------------------------------------------------
\* compressSession replaced the session's entries by a summary entry
Summarised == lib.after # <<>> /\ lib.after[1] # lib.store[1]

\* the summary entry compressSession created
NewSummary == lib.after[1].entries[Len(lib.after[1].entries)]

\* C36: a summary entry created by compressSession is still in the store after
\* every later sequence of pruneOld calls and initialize loads, at any age.
C36_SummaryRetained ==
    (mode = "library" /\ Summarised)
        => /\ NewSummary.type = "summary"
           /\ \E i \in 1 .. Len(lib.out[1].entries) : lib.out[1].entries[i] = NewSummary

\* two retention periods after the compression, a prune with the 30 days of
\* initialize has removed every other entry of a store that had some and has
\* kept the summary
C36_Witness ==
    /\ mode = "library" /\ Summarised
    /\ lib.fn = "pruneOldLater" /\ lib.days = pruneDays
    /\ now - NewSummary.timestamp = MaxPeriods * pruneDays * DayTicks
    /\ Len(lib.after[1].entries) > 1
    /\ lib.out[1].entries = <<NewSummary>>

----------------------------------------------------------------------------
\* the entries of the sessions other than session, in their order
OfOtherSessions(entries, session) ==
    LET other(e) == e.sessionId # session
    IN  SelectSeq(entries, other)

\* C37: compressSession(store, s) returns every entry of another session with
\* all its fields and in the same relative order, whether or not it compressed,
\* and never returns more entries than it was given.
C37_OtherSessionsUntouched ==
    (mode = "library" /\ lib.fn = "compressSession")
        => /\ OfOtherSessions(lib.out[1].entries, lib.arg[1])
                = OfOtherSessions(lib.store[1].entries, lib.arg[1])
           /\ Len(lib.out[1].entries) <= Len(lib.store[1].entries)

\* session s1 was compressed in a store that had two entries of session s0, one
\* in front of and one among the entries of s1: the result has three entries
C37_Witness ==
    /\ mode = "library" /\ lib.fn = "compressSession" /\ lib.arg = <<"s1">>
    /\ Len(ToCompress(lib.store[1].entries, "s1")) >= compressThreshold
    /\ lib.store[1].entries[1].sessionId = "s0"
    /\ Len(OfOtherSessions(lib.store[1].entries, "s1")) = 2
    /\ Len(lib.out[1].entries) = 3

----------------------------------------------------------------------------
----------------------------------------------------------------------------
\* C39: an add* call made while store is still null (before initialize, or while
\* initialize is suspended on reading the file) has no effect and reports no
\* error: the store stays null, the store initialize installs holds no entry of
\* this session, and no file ever holds an entry of this session that the store
\* does not hold.
C39_EarlyAddDropped ==
    /\ [][(Calls(AddOps) /\ store = <<>>)
             => /\ store' = <<>>
                /\ dirty' = dirty
                /\ file' = file
                /\ ~raised']_vars
    /\ [][(mode = "session" /\ ipc # "done" /\ ipc' = "done") => OwnEntries' = {}]_vars
    /\ [](mode = "session"
            => \A e \in FileEntries(file) : e.sessionId = "s1" => e \in OwnEntries)

\* an add* call has returned while initialize is suspended on reading the file
C39_Witness ==
    /\ mode = "session"
    /\ call.op \in AddOps
    /\ ipc = "reading"
    /\ store = <<>>

====
